---------------------------- MODULE Spec2Model ----------------------------
(***************************************************************************)
(* Receipt template engine: the markup backend (PrintTemplateEngine,       *)
(* src/unnamed/part_000) and the ESC/POS byte backend (ESCPOSGenerator,    *)
(* src/unnamed/part_003), with the formatting library, the variable        *)
(* substitution and the validator / variable extractor they share.         *)
(*                                                                         *)
(* Representation.                                                         *)
(*   - A JavaScript string is a TLA+ string; s.slice / s.substring are     *)
(*     SubSeq, s.length is Len, + is \o.                                   *)
(*   - A JavaScript number is a record [t |-> "number", nan, v] where v is *)
(*     the value in hundredths (the engine prints 2 decimals everywhere);  *)
(*     nan marks NaN.                                                      *)
(*   - undefined, null, strings, arrays and objects are tagged records.    *)
(*   - An object is a function from property names to values; a property   *)
(*     that is absent reads as undefined.                                  *)
(***************************************************************************)
EXTENDS Integers, Sequences, FiniteSets, TLC

VARIABLES
    template,   \* the Template object handed to the engine
    data,       \* the DataContext object handed to the engine
    fn,         \* name of the API function that ran last ("none" at start)
    arg,        \* arguments of a formatting / substitution call
    ret,        \* what the last call returned
    thrown,     \* TRUE when the last call ended with an exception
    elementCommands  \* generate(): the elementCommands of each forEach turn

vars == <<template, data, fn, arg, ret, thrown, elementCommands>>

---------------------------------------------------------------------------
(* JavaScript values                                                       *)

Undefined == [t |-> "undefined"]
Null      == [t |-> "null"]
N(c)      == [t |-> "number", nan |-> FALSE, v |-> c]
NaN       == [t |-> "number", nan |-> TRUE, v |-> 0]
S(s)      == [t |-> "string", v |-> s]
A(seq)    == [t |-> "array", v |-> seq]
O(rec)    == [t |-> "object", v |-> rec]
B(b)      == [t |-> "boolean", v |-> b]
NoArg     == <<>>
\* what a call that ended with an exception "returns"
Throw     == [t |-> "throw"]

\* JavaScript passes arguments by value: the argument x is evaluated once and
\* F works on the value
ByValue(x, F(_)) == CHOOSE r \in {F(v) : v \in {x}} : TRUE

\* obj[key] on a plain data object: an absent property reads as undefined
Get(obj, key) == IF key \in DOMAIN obj THEN obj[key] ELSE Undefined

\* ToBoolean
Truthy(x) ==
    CASE x.t = "undefined" -> FALSE
      [] x.t = "null"      -> FALSE
      [] x.t = "number"    -> ~x.nan /\ x.v # 0
      [] x.t = "string"    -> x.v # ""
      [] x.t = "boolean"   -> x.v
      [] OTHER             -> TRUE

\* a || b
Or(a, b) == IF Truthy(a) THEN a ELSE b

---------------------------------------------------------------------------
(* Characters and digits                                                   *)

\* the printable ASCII characters: codes 32..95 and 97..126 (a TLA+ string
\* cannot hold the grave accent, code 96)
ASCII_LO == " !\"#$%&'()*+,-./0123456789:;<=>?@ABCDEFGHIJKLMNOPQRSTUVWXYZ[\\]^_"
ASCII_HI == "abcdefghijklmnopqrstuvwxyz{|}~"

RUPEE == "₹"
\* the currency prefix as it stands in the byte backend's source text: the
\* three characters U+00E2 U+201A U+00B9 (U+201A cannot be written in a TLA+
\* string; the cedilla stands for it and charCodeAt gives it the code 8218)
ESCPOS_RUPEE == "â¸¹"

At(s, i) == SubSeq(s, i, i)

\* String.prototype.slice(b, e) / substring(b, e) with 0 <= b, 0-based, e exclusive
Slice(s, b, e) == SubSeq(s, b + 1, IF e > Len(s) THEN Len(s) ELSE e)
SliceFrom(s, b) == SubSeq(s, b + 1, Len(s))

IsDigit(c) == \E i \in 1..10 : At("0123456789", i) = c
DigitVal(c) == (CHOOSE i \in 1..10 : At("0123456789", i) = c) - 1
DigitChar(d) == At("0123456789", d + 1)

\* \w of a regular expression
IsWord(c) ==
    \E i \in 1..63 :
        At("0123456789ABCDEFGHIJKLMNOPQRSTUVWXYZ_abcdefghijklmnopqrstuvwxyz", i) = c

\* String.prototype.charCodeAt
charCodeAt(c) ==
    IF \E i \in 1..Len(ASCII_LO) : At(ASCII_LO, i) = c
    THEN 31 + (CHOOSE i \in 1..Len(ASCII_LO) : At(ASCII_LO, i) = c)
    ELSE IF \E i \in 1..Len(ASCII_HI) : At(ASCII_HI, i) = c
    THEN 96 + (CHOOSE i \in 1..Len(ASCII_HI) : At(ASCII_HI, i) = c)
    ELSE CASE c = RUPEE  -> 8377                \* U+20B9
           [] c = At(ESCPOS_RUPEE, 1) -> 226    \* U+00E2
           [] c = At(ESCPOS_RUPEE, 2) -> 8218   \* U+201A
           [] c = At(ESCPOS_RUPEE, 3) -> 185    \* U+00B9
           [] OTHER -> 63

Abs(n) == IF n < 0 THEN -n ELSE n

RECURSIVE IntStr(_)
IntStr(n) == IF n < 10 THEN DigitChar(n) ELSE IntStr(n \div 10) \o DigitChar(n % 10)

\* Number.prototype.toFixed(2)
toFixed2(x) ==
    IF x.nan THEN "NaN"
    ELSE ByValue(Abs(x.v), LAMBDA a :
            (IF x.v < 0 THEN "-" ELSE "")
            \o IntStr(a \div 100) \o "."
            \o DigitChar((a % 100) \div 10) \o DigitChar(a % 10))

\* Number::toString for a value with at most 2 decimals
NumToString(x) ==
    IF x.nan THEN "NaN"
    ELSE ByValue(Abs(x.v), LAMBDA a : ByValue(a % 100, LAMBDA f :
            (IF x.v < 0 THEN "-" ELSE "") \o IntStr(a \div 100)
            \o (IF f = 0 THEN ""
                ELSE IF f % 10 = 0 THEN "." \o DigitChar(f \div 10)
                ELSE "." \o DigitChar(f \div 10) \o DigitChar(f % 10))))

RECURSIVE JoinComma(_)
RECURSIVE ToStr(_)
\* String(value)
ToStr(x) ==
    CASE x.t = "undefined" -> "undefined"
      [] x.t = "null"      -> "null"
      [] x.t = "number"    -> NumToString(x)
      [] x.t = "string"    -> x.v
      [] x.t = "boolean"   -> IF x.v THEN "true" ELSE "false"
      [] x.t = "array"     -> JoinComma(x.v)
      [] OTHER             -> "[object Object]"
\* Array.prototype.join(',') (what String(array) does)
JoinComma(seq) ==
    IF seq = <<>> THEN ""
    ELSE IF Len(seq) = 1 THEN ToStr(seq[1])
    ELSE ToStr(seq[1]) \o "," \o JoinComma(Tail(seq))

\* length of the run of decimal digits of s that starts at 1-based position i
RECURSIVE DigitRun(_, _)
DigitRun(s, i) ==
    IF i <= Len(s) /\ IsDigit(At(s, i)) THEN 1 + DigitRun(s, i + 1) ELSE 0

RECURSIVE DigitsVal(_, _, _)
\* value of the digits s[i .. i+n-1]
DigitsVal(s, i, n) ==
    IF n = 0 THEN 0 ELSE DigitsVal(s, i, n - 1) * 10 + DigitVal(At(s, i + n - 1))

RECURSIVE SkipSpaces(_, _)
SkipSpaces(s, i) == IF i <= Len(s) /\ At(s, i) = " " THEN SkipSpaces(s, i + 1) ELSE i

\* parseFloat(value): longest numeric prefix of String(value), else NaN.
\* Fraction digits after the second are dropped (values carry 2 decimals).
parseFloat(x) ==
    IF x.t = "number" THEN x
    ELSE
    ByValue(ToStr(x), LAMBDA s :
    ByValue(SkipSpaces(s, 1), LAMBDA i0 :
    ByValue(IF i0 <= Len(s) /\ (At(s, i0) = "-" \/ At(s, i0) = "+") THEN i0 + 1 ELSE i0,
            LAMBDA i1 :
    ByValue(DigitRun(s, i1), LAMBDA nInt :
    ByValue(IF i1 + nInt <= Len(s) /\ At(s, i1 + nInt) = "."
            THEN DigitRun(s, i1 + nInt + 1) ELSE 0, LAMBDA nFr :
    LET neg == i0 <= Len(s) /\ At(s, i0) = "-"
        ip  == DigitsVal(s, i1, nInt)
        f1  == IF nFr >= 1 THEN DigitVal(At(s, i1 + nInt + 1)) ELSE 0
        f2  == IF nFr >= 2 THEN DigitVal(At(s, i1 + nInt + 2)) ELSE 0
        mag == ip * 100 + f1 * 10 + f2
    IN IF nInt + nFr = 0 THEN NaN ELSE N(IF neg THEN -mag ELSE mag))))))

\* if (typeof value !== 'number') value = parseFloat(value) || 0;
CoerceNumber(x) ==
    IF x.t = "number" THEN x ELSE ByValue(parseFloat(x), LAMBDA p : Or(p, N(0)))

---------------------------------------------------------------------------
(* Formatting library of the markup backend                                *)

RECURSIVE WesternFrom(_, _)
\* s.replace(/\B(?=(\d{3})+(?!\d))/g, ','): a comma goes in front of position
\* i when the character before it is a word character (\B, the next one being
\* a digit) and the digits from i on form a run whose length is a positive
\* multiple of 3
WesternFrom(s, i) ==
    IF i > Len(s) THEN ""
    ELSE ByValue(DigitRun(s, i), LAMBDA run :
            (IF i > 1 /\ IsWord(At(s, i - 1)) /\ run > 0 /\ run % 3 = 0 THEN "," ELSE "")
            \o At(s, i) \o WesternFrom(s, i + 1))

WesternGroup(s) == ByValue(s, LAMBDA str : WesternFrom(str, 1))

\* value.toFixed(2) after the coercion of the formatting functions
Fixed2(value) == ByValue(CoerceNumber(value), LAMBDA x : toFixed2(x))

formatCurrency(value) == RUPEE \o WesternGroup(Fixed2(value))

formatNumberLimitedMutant(value, maxLength) ==
    ByValue(WesternGroup(Fixed2(value)), LAMBDA formatted :
        IF Len(formatted) > maxLength
        THEN Slice(formatted, 0, maxLength + 1)
        ELSE formatted)

formatNumberLimited(value, maxLength) ==
    ByValue(WesternGroup(Fixed2(value)), LAMBDA formatted :
        IF Len(formatted) > maxLength
        THEN Slice(formatted, 0, maxLength)
        ELSE formatted)

\* position of the first "." of s, 0 when there is none
RECURSIVE IndexOfDot(_, _)
IndexOfDot(s, i) ==
    IF i > Len(s) THEN 0 ELSE IF At(s, i) = "." THEN i ELSE IndexOfDot(s, i + 1)

RECURSIVE IndianLoop(_, _)
\* for (let i = formatted.length - 2; i > 0; i -= 2)
\*     formatted = formatted.slice(0, i) + ',' + formatted.slice(i);
IndianLoop(formatted, i) ==
    IF i > 0
    THEN ByValue(Slice(formatted, 0, i) \o "," \o SliceFrom(formatted, i),
                 LAMBDA next : IndianLoop(next, i - 2))
    ELSE formatted

\* the integer part in groups of 3 throughout
formatIndianNumberWestern(value) == SliceFrom(formatCurrency(value), 1)

formatIndianNumber(value) ==
    ByValue(Fixed2(value), LAMBDA fixed :
    ByValue(IndexOfDot(fixed, 1), LAMBDA dot :
    \* parts = fixed.split('.'); toFixed(2) holds at most one "."
    ByValue(IF dot = 0 THEN fixed ELSE Slice(fixed, 0, dot - 1), LAMBDA integerPart :
    ByValue(Len(integerPart), LAMBDA len :
    LET decimalPart == IF dot = 0 \/ dot = Len(fixed) THEN "00" ELSE SliceFrom(fixed, dot)
        grouped ==
            IF len <= 3 THEN integerPart
            ELSE IF len <= 5
                 THEN Slice(integerPart, 0, len - 3) \o "," \o SliceFrom(integerPart, len - 3)
                 ELSE ByValue(Slice(integerPart, 0, len - 3), LAMBDA head :
                        IndianLoop(head, Len(head) - 2) \o "," \o SliceFrom(integerPart, len - 3))
    IN grouped \o "." \o decimalPart))))

---------------------------------------------------------------------------
(* Variable substitution                                                   *)

RECURSIVE TrimLeft(_)
TrimLeft(s) == IF s # "" /\ Head(s) = " " THEN TrimLeft(Tail(s)) ELSE s
RECURSIVE TrimRight(_)
TrimRight(s) ==
    IF s # "" /\ At(s, Len(s)) = " " THEN TrimRight(SubSeq(s, 1, Len(s) - 1)) ELSE s
\* String.prototype.trim
trim(s) == TrimRight(TrimLeft(s))

\* first position >= i of s that holds "}", 0 when there is none
RECURSIVE IndexOfClose(_, _)
IndexOfClose(s, i) ==
    IF i > Len(s) THEN 0 ELSE IF At(s, i) = "}" THEN i ELSE IndexOfClose(s, i + 1)

\* /\$\{([^}]+)\}/ tried at position i: the position of the closing brace of
\* the match, 0 when the pattern does not match there
MatchEnd(s, i) ==
    IF i + 3 <= Len(s) /\ At(s, i) = "$" /\ At(s, i + 1) = "{" /\ At(s, i + 2) # "}"
    THEN IndexOfClose(s, i + 3)
    ELSE 0

\* the replacer callback of both backends:
\*   const value = data[varName.trim()];
\*   return value !== undefined && value !== null ? value : match;
\* (String.prototype.replace turns what the callback returns into a string;
\* the byte backend calls String(value) itself)
Replacer(match, varName, d) ==
    LET value == Get(d.v, trim(varName))
    IN IF value.t # "undefined" /\ value.t # "null" THEN ToStr(value) ELSE match

\* text.replace(/\$\{([^}]+)\}/g, replacer): matches are taken left to right,
\* the scan goes on after the end of each match, never inside a replacement
RECURSIVE ReplaceFrom(_, _, _)
ReplaceFrom(s, d, i) ==
    ByValue({m \in i..Len(s) : MatchEnd(s, m) # 0}, LAMBDA matches :
        IF matches = {} THEN SubSeq(s, i, Len(s))
        ELSE ByValue(CHOOSE m \in matches : \A k \in matches : m <= k, LAMBDA m :
             ByValue(MatchEnd(s, m), LAMBDA e :
                SubSeq(s, i, m - 1)
                \o Replacer(SubSeq(s, m, e), SubSeq(s, m + 2, e - 1), d)
                \o ReplaceFrom(s, d, e + 1))))

\* a replaceVariables that scans what it inserted once more
replaceVariablesRescan(text, d) ==
    IF ~Truthy(text) \/ text.t # "string" THEN text
    ELSE ByValue(ReplaceFrom(text.v, d, 1), LAMBDA s : S(ReplaceFrom(s, d, 1)))

\* PrintTemplateEngine.replaceVariables
replaceVariables(text, d) ==
    IF ~Truthy(text) \/ text.t # "string" THEN text
    ELSE ByValue(text.v, LAMBDA s : S(ReplaceFrom(s, d, 1)))

\* ESCPOSGenerator.replaceVariables
ESCPOS_replaceVariables(text, d) ==
    IF ~Truthy(text) \/ text.t # "string" THEN text
    ELSE ByValue(text.v, LAMBDA s : S(ReplaceFrom(s, d, 1)))

---------------------------------------------------------------------------
(* Validator and variable extractor                                        *)

\* x.key read from a value that may be a primitive, and x?.key: undefined
\* and null give undefined under ?. ; a primitive has no such property
Prop(x, key) == IF x.t = "object" THEN Get(x.v, key) ELSE Undefined

Range(seq) == {seq[i] : i \in 1..Len(seq)}

ERR_NULL      == "Template is null or undefined"
ERR_NO_RT     == "Missing \"receipt_template\" property"
ERR_NO_ELEMS  == "Missing \"receipt_template.elements\" array"
ERR_NOT_ARRAY == "\"receipt_template.elements\" must be an array"
WARN_WIDTH    == "Missing \"characterWidth\" property, defaulting to 32"
WARN_PAPER    == "Missing \"paperWidth\" property, defaulting to 58"

\* the errors / warnings of validateTemplate: what the pushes leave in the list
Pushes(pairs) ==
    LET F[i \in 0..Len(pairs)] ==
            IF i = 0 THEN <<>>
            ELSE IF pairs[i][1] THEN Append(F[i - 1], pairs[i][2]) ELSE F[i - 1]
    IN F[Len(pairs)]

\* a validateTemplate that counts a missing characterWidth as an error
validateTemplateStrict(t) ==
    IF ~Truthy(t)
    THEN [valid |-> FALSE, errors |-> <<ERR_NULL>>, warnings |-> <<>>]
    ELSE LET rt == Prop(t, "receipt_template")
             elements == Prop(rt, "elements")
             errors == Pushes(<< <<~Truthy(rt), ERR_NO_RT>>,
                                 <<~Truthy(elements), ERR_NO_ELEMS>>,
                                 <<Truthy(elements) /\ elements.t # "array", ERR_NOT_ARRAY>>,
                                 <<~Truthy(Prop(rt, "characterWidth")), WARN_WIDTH>> >>)
             warnings == Pushes(<< <<~Truthy(Prop(rt, "paperWidth")), WARN_PAPER>> >>)
         IN [valid |-> Len(errors) = 0, errors |-> errors, warnings |-> warnings]

validateTemplate(t) ==
    IF ~Truthy(t)
    THEN [valid |-> FALSE, errors |-> <<ERR_NULL>>, warnings |-> <<>>]
    ELSE LET rt == Prop(t, "receipt_template")
             elements == Prop(rt, "elements")
             errors == Pushes(<< <<~Truthy(rt), ERR_NO_RT>>,
                                 <<~Truthy(elements), ERR_NO_ELEMS>>,
                                 <<Truthy(elements) /\ elements.t # "array", ERR_NOT_ARRAY>> >>)
             warnings == Pushes(<< <<~Truthy(Prop(rt, "characterWidth")), WARN_WIDTH>>,
                                   <<~Truthy(Prop(rt, "paperWidth")), WARN_PAPER>> >>)
         IN [valid |-> Len(errors) = 0, errors |-> errors, warnings |-> warnings]

\* a Set.add that keeps a second copy
SetAddDup(seq, x) == Append(seq, x)

\* variables.add(x) on the Set, kept in insertion order
SetAdd(seq, x) == IF x \in Range(seq) THEN seq ELSE Append(seq, x)

RECURSIVE MatchAllInto(_, _, _)
\* for (const match of value.matchAll(/\$\{([^}]+)\}/g)) variables.add(match[1].trim())
MatchAllInto(s, i, variables) ==
    IF i > Len(s) THEN variables
    ELSE LET e == MatchEnd(s, i)
         IN IF e = 0
            THEN MatchAllInto(s, i + 1, variables)
            ELSE MatchAllInto(s, e + 1, SetAdd(variables, trim(SubSeq(s, i + 2, e - 1))))

RECURSIVE ExtractFrom(_, _, _)
\* elements.forEach(element => { if (element.value is a non-empty string) ... })
ExtractFrom(elements, k, variables) ==
    IF k > Len(elements) THEN variables
    ELSE LET value == Prop(elements[k], "value")
         IN ExtractFrom(elements, k + 1,
                IF Truthy(value) /\ value.t = "string"
                THEN MatchAllInto(value.v, 1, variables)
                ELSE variables)

\* extractVariables (called on templates whose elements, when there, is an
\* array); the result is Array.from(variables)
extractVariables(t) ==
    IF ~Truthy(t) \/ ~Truthy(Prop(t, "receipt_template"))
       \/ ~Truthy(Prop(Prop(t, "receipt_template"), "elements"))
    THEN <<>>
    ELSE ExtractFrom(Prop(Prop(t, "receipt_template"), "elements").v, 1, <<>>)

---------------------------------------------------------------------------
(* Bounds of the input sets                                                *)

MaxIntDigits == 6      \* integer parts have up to this many digits
MaxSmallInt  == 12     \* every integer part 0..MaxSmallInt is an input
MaxLength    == 9      \* formatNumberLimited budgets 0..MaxLength

RECURSIVE Pow10(_)
Pow10(k) == IF k = 0 THEN 1 ELSE 10 * Pow10(k - 1)

IntParts ==
    (0..MaxSmallInt)
    \cup UNION {{Pow10(d - 1), Pow10(d) - 1, DigitsVal("1234567891234567", 1, d)}
                : d \in 1..MaxIntDigits}

Fractions == {0, 5, 50, 99}

FormatNumbers ==
    {N(sg * (i * 100 + f)) : sg \in {1, -1}, i \in IntParts, f \in Fractions}
    \cup {N(123456750), N(-123456750), N(1234567891), N(-1234567891), NaN}

FormatValues ==
    FormatNumbers
    \cup {S("abc"), S(""), S("12.5"), S("-7"), S("1234.5 kg"), Undefined, Null}

MaxPieces    == 4      \* a substitution text is made of up to MaxPieces pieces

\* the pieces texts are made of: the parts of a placeholder and whole ones
Pieces == {"${", "}", "a", " ", "${a}", "${b}"}

RECURSIVE TextsOf(_)
TextsOf(k) ==
    IF k = 0 THEN {""}
    ELSE LET shorter == TextsOf(k - 1)
         IN shorter \cup {t \o p : t \in shorter, p \in Pieces}

\* the data contexts of a substitution: a and b absent, null, a number, empty,
\* or holding a placeholder themselves
SubstContexts ==
    { O([shop |-> S("S")]),
      O([a |-> S("X")]),
      O([a |-> Null, b |-> S("Y")]),
      O([a |-> S("${b}"), b |-> S("Y")]),
      O([a |-> N(250), b |-> S("")]) }

MaxExtractPieces   == 2   \* pieces of an element value given to extractVariables
MaxExtractElements == 2   \* elements of a template given to extractVariables

RECURSIVE SeqsUpTo(_, _)
\* the sequences of at most k members of set
SeqsUpTo(set, k) ==
    IF k = 0 THEN {<<>>}
    ELSE LET shorter == SeqsUpTo(set, k - 1)
         IN shorter \cup {Append(q, x) : q \in shorter, x \in set}

\* the root object of a template
Root(elements, characterWidth, paperWidth) ==
    O([receipt_template |->
          O([elements |-> elements, characterWidth |-> characterWidth,
             paperWidth |-> paperWidth])])

TextElement(value) == O([type |-> S("text"), value |-> value])

ExtractValues ==
    {S(t) : t \in TextsOf(MaxExtractPieces) \cup {"${ a }", "${b}${ a}${b }"}}
    \cup {Undefined, N(500)}

ExtractTemplates ==
    {Root(A(q), N(3200), N(5800)) :
        q \in SeqsUpTo({TextElement(v) : v \in ExtractValues}, MaxExtractElements)}
    \cup {Undefined, O([name |-> S("t")]), Root(Undefined, N(3200), N(5800))}

\* what the elements property of a template given to validateTemplate holds
ValidateElements ==
    {Undefined, Null, A(<<>>), A(<<TextElement(S("${a}"))>>), S("abc"), S(""),
     N(0), O([length |-> N(0)])}

ValidateTemplates ==
    {Root(e, w, p) : e \in ValidateElements, w \in {Undefined, N(3200), N(0)},
                     p \in {Undefined, N(5800)}}
    \cup {Undefined, Null, O([name |-> S("t")]),
          O([receipt_template |-> Null]), O([receipt_template |-> S("x")])}

Quiet == <<>>   \* placeholder for the variables a call does not use

---------------------------------------------------------------------------
(* The formatting library called on its own: one call of one function on   *)
(* one input (the functions keep no state, so a second call adds nothing)  *)

InitFormat ==
    /\ template = Undefined
    /\ data = Quiet
    /\ fn = "none"
    /\ arg = NoArg
    /\ ret = Undefined
    /\ thrown = FALSE
    /\ elementCommands = <<>>

Call_formatCurrency ==
    /\ fn = "none"
    /\ \E x \in FormatValues :
        /\ fn' = "formatCurrency"
        /\ arg' = <<x>>
        /\ ret' = S(formatCurrency(x))
        /\ UNCHANGED <<template, data, thrown, elementCommands>>

Call_formatIndianNumber ==
    /\ fn = "none"
    /\ \E x \in FormatValues :
        /\ fn' = "formatIndianNumber"
        /\ arg' = <<x>>
        /\ ret' = S(formatIndianNumber(x))
        /\ UNCHANGED <<template, data, thrown, elementCommands>>

Call_formatNumberLimited ==
    /\ fn = "none"
    /\ \E x \in FormatValues, n \in 0..MaxLength :
        /\ fn' = "formatNumberLimited"
        /\ arg' = <<x, N(n * 100)>>
        /\ ret' = S(formatNumberLimited(x, n))
        /\ UNCHANGED <<template, data, thrown, elementCommands>>

\* new Date(dateString) for the strings "YYYY-MM-DDTHH:MM:SS" (local time);
\* every other string of the data contexts used here is an Invalid Date
IsLocalIso(s) ==
    /\ Len(s) = 19
    /\ \A i \in {1, 2, 3, 4, 6, 7, 9, 10, 12, 13, 15, 16, 18, 19} : IsDigit(At(s, i))
    /\ At(s, 5) = "-" /\ At(s, 8) = "-" /\ At(s, 11) = "T"
    /\ At(s, 14) = ":" /\ At(s, 17) = ":"

\* formatDate: toLocaleDateString('en-IN', 2-digit day and month)
formatDate(dateString) ==
    IF ~Truthy(dateString) THEN ""
    ELSE ByValue(ToStr(dateString), LAMBDA s :
            IF IsLocalIso(s)
            THEN SubSeq(s, 9, 10) \o "/" \o SubSeq(s, 6, 7) \o "/" \o SubSeq(s, 1, 4)
            ELSE "Invalid Date")

\* formatTime: toLocaleTimeString('en-IN', 2-digit, hour12: false)
formatTime(dateString) ==
    IF ~Truthy(dateString) THEN ""
    ELSE ByValue(ToStr(dateString), LAMBDA s :
            IF IsLocalIso(s) THEN SubSeq(s, 12, 19) ELSE "Invalid Date")

\* formatDate of the generator: DD/MM/YYYY from getDate, getMonth, getFullYear
ESCPOS_formatDate(dateString) ==
    IF ~Truthy(dateString) THEN ""
    ELSE ByValue(ToStr(dateString), LAMBDA s :
            IF IsLocalIso(s)
            THEN SubSeq(s, 9, 10) \o "/" \o SubSeq(s, 6, 7) \o "/" \o SubSeq(s, 1, 4)
            ELSE "NaN/NaN/NaN")

\* formatTime of the generator: HH:MM
ESCPOS_formatTime(dateString) ==
    IF ~Truthy(dateString) THEN ""
    ELSE ByValue(ToStr(dateString), LAMBDA s :
            IF IsLocalIso(s) THEN SubSeq(s, 12, 16) ELSE "NaN:NaN")

\* the timestamps handed to formatDate and formatTime: local ISO-8601
\* timestamps, strings no Date can be parsed from, and no string at all
DateValues ==
    {S("2025-01-15T14:30:05"), S("1999-12-31T23:59:59"), S("2024-02-29T00:00:00"),
     S("tomorrow"), S("not a date"), S("T"), S("date: ?"), S(""), Undefined, Null}

\* PrintTemplateEngine.formatDate(dateString)
Call_formatDate ==
    /\ fn = "none"
    /\ \E x \in DateValues :
        /\ fn' = "formatDate"
        /\ arg' = <<x>>
        /\ ret' = S(formatDate(x))
        /\ UNCHANGED <<template, data, thrown, elementCommands>>

\* PrintTemplateEngine.formatTime(dateString)
Call_formatTime ==
    /\ fn = "none"
    /\ \E x \in DateValues :
        /\ fn' = "formatTime"
        /\ arg' = <<x>>
        /\ ret' = S(formatTime(x))
        /\ UNCHANGED <<template, data, thrown, elementCommands>>

\* new ESCPOSGenerator().formatDate(dateString)
Call_ESCPOS_formatDate ==
    /\ fn = "none"
    /\ \E x \in DateValues :
        /\ fn' = "ESCPOSGenerator.formatDate"
        /\ arg' = <<x>>
        /\ ret' = S(ESCPOS_formatDate(x))
        /\ UNCHANGED <<template, data, thrown, elementCommands>>

\* new ESCPOSGenerator().formatTime(dateString)
Call_ESCPOS_formatTime ==
    /\ fn = "none"
    /\ \E x \in DateValues :
        /\ fn' = "ESCPOSGenerator.formatTime"
        /\ arg' = <<x>>
        /\ ret' = S(ESCPOS_formatTime(x))
        /\ UNCHANGED <<template, data, thrown, elementCommands>>


\* formatCurrency of the generator: the prefix and parseFloat(value).toFixed(2)
ESCPOS_formatCurrency(value) ==
    ESCPOS_RUPEE \o ByValue(parseFloat(value), LAMBDA x : toFixed2(x))

\* new ESCPOSGenerator().formatCurrency(value)
Call_ESCPOS_formatCurrency ==
    /\ fn = "none"
    /\ \E x \in FormatValues :
        /\ fn' = "ESCPOSGenerator.formatCurrency"
        /\ arg' = <<x>>
        /\ ret' = S(ByValue(x, LAMBDA value : ESCPOS_formatCurrency(value)))
        /\ UNCHANGED <<template, data, thrown, elementCommands>>

NextFormat ==
    \/ Call_formatCurrency
    \/ Call_formatIndianNumber
    \/ Call_formatNumberLimited
    \/ Call_ESCPOS_formatCurrency
    \/ Call_formatDate
    \/ Call_formatTime
    \/ Call_ESCPOS_formatDate
    \/ Call_ESCPOS_formatTime

SpecFormat == InitFormat /\ [][NextFormat]_vars

---------------------------------------------------------------------------
(* Claims about the formatting library                                     *)

IsPlainNumber(x) == x.t = "number" /\ ~x.nan

\* the text has no "," in it
RECURSIVE NoComma(_)
NoComma(s) == s = "" \/ (Head(s) # "," /\ NoComma(Tail(s)))

\* C7: for every number whose integer part has at most 3 digits (negative
\* values included) formatIndianNumber gives formatCurrency without the
\* currency glyph, and the text holds no grouping comma.
C7_IndianEqualsWesternUpTo999 ==
    (fn = "formatIndianNumber" /\ IsPlainNumber(arg[1])
        /\ Abs(arg[1].v) \div 100 <= 999)
    => /\ ret.v = SliceFrom(formatCurrency(arg[1]), 1)
       /\ NoComma(ret.v)

\* C8: formatNumberLimited(x, n) is never longer than n; it is the first n
\* characters of the Western-grouped 2-decimal text of x when that text is
\* longer than n, and that text unchanged otherwise.
C8_LimitedIsPrefix ==
    fn = "formatNumberLimited" =>
        LET n == arg[2].v \div 100
            w == SliceFrom(formatCurrency(arg[1]), 1)
        IN /\ Len(ret.v) <= n
           /\ Len(w) > n => ret.v = SubSeq(w, 1, n)
           /\ Len(w) <= n => ret.v = w

\* 99,999.99 under a budget of 7 is cut to "99,999."
C8_Witness ==
    /\ fn = "formatNumberLimited"
    /\ arg = <<N(9999999), N(700)>>
    /\ ret.v = "99,999."

\* the text without its commas
RECURSIVE RemoveCommas(_)
RemoveCommas(s) ==
    IF s = "" THEN ""
    ELSE (IF At(s, 1) = "," THEN "" ELSE At(s, 1)) \o RemoveCommas(SubSeq(s, 2, Len(s)))

\* Indian grouping of the text of a number with 2 decimals: the commas of
\* the integer part stand in front of its last 3 digits and then in front of
\* every 2 digits further left, never in front of the whole; with the commas
\* taken out the text is plain
IsIndianGrouped(s, plain) ==
    LET n == Len(s) - 3     \* the length of the integer part
    IN /\ n >= 1
       /\ At(s, n + 1) = "."
       /\ IsDigit(At(s, n + 2)) /\ IsDigit(At(s, n + 3))
       /\ At(s, 1) # ","
       /\ \A j \in 1..n :     \* j counts from the right end of the integer part
             (At(s, n + 1 - j) = ",") <=> (j >= 4 /\ (j - 4) % 3 = 0)
       /\ \A j \in 1..n : At(s, j) = "," \/ IsDigit(At(s, j))
       /\ RemoveCommas(s) = plain

\* C19: formatIndianNumber groups the integer part by the Indian rule for
\* every non-negative value: the rightmost 3 digits form one group and the
\* remaining digits are split into groups of 2 from the right (the leftmost
\* group has 1 or 2 digits), followed by '.' and exactly 2 decimals; e.g.
\* 1234567.5 gives "12,34,567.50".
C19_IndianGrouping ==
    (fn = "formatIndianNumber" /\ IsPlainNumber(CoerceNumber(arg[1]))
        /\ CoerceNumber(arg[1]).v >= 0)
    => /\ IsIndianGrouped(ret.v, toFixed2(CoerceNumber(arg[1])))
       /\ arg[1] = N(123456750) => ret.v = "12,34,567.50"

\* scenario 3: formatIndianNumber(1234567.5)
C19_Witness ==
    /\ fn = "formatIndianNumber"
    /\ arg[1] = N(123456750)
    /\ ret.v = "12,34,567.50"

DateCalls ==
    {"formatDate", "formatTime", "ESCPOSGenerator.formatDate", "ESCPOSGenerator.formatTime"}

\* C18: formatDate and formatTime never throw, and when the input string
\* cannot be parsed as a timestamp they return the original input string
\* unchanged.
C18_UnparseableDateComesBack ==
    fn \in DateCalls =>
        /\ ~thrown
        /\ (arg[1].t = "string" /\ ~IsLocalIso(arg[1].v)) => ret = arg[1]

\* C15: both backends format currency values identically: for every value
\* (numeric, numeric string, or unparseable input) the currency text of the
\* byte backend equals the markup backend's formatCurrency result, i.e.
\* unparseable input becomes 0, 2 decimals, currency glyph, and Western
\* 3-digit thousands grouping.
C15_SameCurrencyText ==
    fn = "ESCPOSGenerator.formatCurrency" => ret.v = formatCurrency(arg[1])

---------------------------------------------------------------------------
(* replaceVariables of either backend called on its own                    *)

Call_replaceVariables ==
    /\ fn = "none"
    /\ \E t \in TextsOf(MaxPieces), d \in SubstContexts :
        /\ fn' = "replaceVariables"
        /\ arg' = <<S(t), d>>
        /\ ret' = replaceVariables(S(t), d)
        /\ UNCHANGED <<template, data, thrown, elementCommands>>

Call_ESCPOS_replaceVariables ==
    /\ fn = "none"
    /\ \E t \in TextsOf(MaxPieces), d \in SubstContexts :
        /\ fn' = "ESCPOS.replaceVariables"
        /\ arg' = <<S(t), d>>
        /\ ret' = ESCPOS_replaceVariables(S(t), d)
        /\ UNCHANGED <<template, data, thrown, elementCommands>>

NextSubst ==
    \/ Call_replaceVariables
    \/ Call_ESCPOS_replaceVariables

SpecSubst == InitFormat /\ [][NextSubst]_vars

---------------------------------------------------------------------------
(* Claims about the substitution                                           *)

\* s..e is a ${identifier} token of text t: "${", then characters other
\* than "}" (at least one), then "}"
IsToken(t, s, e) ==
    /\ s + 3 <= e /\ e <= Len(t)
    /\ SubSeq(t, s, s + 1) = "${"
    /\ At(t, e) = "}"
    /\ \A k \in (s + 2)..(e - 1) : At(t, k) # "}"

\* the tokens of t as a left-to-right scan finds them: a token that starts
\* inside an earlier one is part of that one
Tokens(t) ==
    LET opens  == {s \in 1..(Len(t) - 1) : SubSeq(t, s, s + 1) = "${"}
        closes == {e \in 1..Len(t) : At(t, e) = "}"}
    IN {sp \in opens \X closes :
           /\ IsToken(t, sp[1], sp[2])
           /\ ~\E s2 \in opens : s2 < sp[1] /\ IsToken(t, s2, sp[2])}

\* the identifier of a token: what stands between "${" and "}" without the
\* blanks around it
Identifier(t, sp) ==
    LET body == SubSeq(t, sp[1] + 2, sp[2] - 1)
        inked == {k \in 1..Len(body) : At(body, k) # " "}
    IN IF inked = {} THEN ""
       ELSE SubSeq(body, CHOOSE k \in inked : \A j \in inked : k <= j,
                         CHOOSE k \in inked : \A j \in inked : k >= j)

\* the token names a property of the context that holds a non-null value
Resolves(t, sp, d) ==
    /\ Identifier(t, sp) \in DOMAIN d.v
    /\ d.v[Identifier(t, sp)].t \notin {"undefined", "null"}

RECURSIVE SubstitutedFrom(_, _, _, _)
\* the text with every resolving token (toks: the resolving tokens of t)
\* replaced by the string form of its value and every other character left
\* as written
SubstitutedFrom(t, d, toks, i) ==
    IF i > Len(t) THEN ""
    ELSE LET here == {sp \in toks : sp[1] = i}
             inside == {sp \in toks : sp[1] < i /\ i <= sp[2]}
         IN (IF here # {}
             THEN ToStr(d.v[Identifier(t, CHOOSE sp \in here : TRUE)])
             ELSE IF inside # {} THEN "" ELSE At(t, i))
            \o SubstitutedFrom(t, d, toks, i + 1)

Substituted(t, d) ==
    SubstitutedFrom(t, d, {sp \in Tokens(t) : Resolves(t, sp, d)}, 1)

---------------------------------------------------------------------------
(* validateTemplate and extractVariables called on their own               *)

Call_validateTemplate ==
    /\ fn = "none"
    /\ \E t \in ValidateTemplates :
        /\ fn' = "validateTemplate"
        /\ template' = t
        /\ ret' = validateTemplate(t)
        /\ UNCHANGED <<data, arg, thrown, elementCommands>>

Call_extractVariables ==
    /\ fn = "none"
    /\ \E t \in ExtractTemplates :
        /\ fn' = "extractVariables"
        /\ template' = t
        /\ ret' = extractVariables(t)
        /\ UNCHANGED <<data, arg, thrown, elementCommands>>

NextStatic ==
    \/ Call_validateTemplate
    \/ Call_extractVariables

SpecStatic == InitFormat /\ [][NextStatic]_vars

---------------------------------------------------------------------------
(* Claims about the validator and the extractor                            *)

\* receipt_template.elements is there and is an array
HasElementsArray(t) ==
    /\ t.t = "object"
    /\ "receipt_template" \in DOMAIN t.v
    /\ t.v.receipt_template.t = "object"
    /\ "elements" \in DOMAIN t.v.receipt_template.v
    /\ t.v.receipt_template.v.elements.t = "array"

\* the property of the root object is missing
RootLacks(t, key) ==
    ~(/\ t.t = "object"
      /\ "receipt_template" \in DOMAIN t.v
      /\ t.v.receipt_template.t = "object"
      /\ key \in DOMAIN t.v.receipt_template.v
      /\ t.v.receipt_template.v[key].t # "undefined")

\* C5: validateTemplate returns valid = false exactly when
\* receipt_template.elements is missing or is not an array; a missing
\* characterWidth or paperWidth adds a warning and leaves valid alone.
C5_ValidIffElementsArray ==
    fn = "validateTemplate" =>
        /\ ret.valid = HasElementsArray(template)
        /\ (template.t = "object" /\ RootLacks(template, "characterWidth"))
              => WARN_WIDTH \in Range(ret.warnings)
        /\ (template.t = "object" /\ RootLacks(template, "paperWidth"))
              => WARN_PAPER \in Range(ret.warnings)
        /\ \A i \in 1..Len(ret.errors) : ret.errors[i] \notin {WARN_WIDTH, WARN_PAPER}

\* a template with an elements array and neither width is valid, with two warnings
C5_Witness ==
    /\ fn = "validateTemplate"
    /\ template = Root(A(<<>>), Undefined, Undefined)
    /\ ret.valid = TRUE
    /\ ret.warnings = <<WARN_WIDTH, WARN_PAPER>>

\* the identifiers of the ${identifier} tokens in the value fields of a template
IdentifiersOf(t) ==
    IF ~HasElementsArray(t) THEN {}
    ELSE LET elements == t.v.receipt_template.v.elements.v
         IN UNION {{Identifier(elements[k].v.value.v, sp) :
                        sp \in Tokens(elements[k].v.value.v)}
                   : k \in {j \in 1..Len(elements) : elements[j].v.value.t = "string"}}

\* C9: extractVariables returns exactly the trimmed identifiers of the
\* ${identifier} tokens in the value fields of the elements, each one once.
C9_ExtractIsTheIdentifierSet ==
    fn = "extractVariables" =>
        /\ Range(ret) = IdentifiersOf(template)
        /\ \A i, j \in 1..Len(ret) : ret[i] = ret[j] => i = j

\* two elements that repeat a token: each identifier is listed once
C9_Witness ==
    /\ fn = "extractVariables"
    /\ template = Root(A(<<TextElement(S("${a}${b}")), TextElement(S("${b}${ a}${b }"))>>),
                       N(3200), N(5800))
    /\ ret = <<"a", "b">>


---------------------------------------------------------------------------
(* Helpers of both backends                                                *)

RECURSIVE JoinRange(_, _, _)
\* seq[a] \o ... \o seq[b], by halves
JoinRange(seq, a, b) ==
    IF a = b THEN seq[a]
    ELSE JoinRange(seq, a, (a + b) \div 2) \o JoinRange(seq, (a + b) \div 2 + 1, b)

\* the strings of a sequence put one after the other (html += ... in a loop)
Join(seq) == ByValue(seq, LAMBDA q : IF Len(q) = 0 THEN "" ELSE JoinRange(q, 1, Len(q)))

\* commands.push(...part) for each part of a sequence
Flatten(seq) == ByValue(seq, LAMBDA q : IF Len(q) = 0 THEN <<>> ELSE JoinRange(q, 1, Len(q)))

\* the elements of a JavaScript array value (nothing for any other value)
Items(x) == IF x.t = "array" THEN x.v ELSE <<>>

\* x > 0 for the amounts of a data context
Gt0(x) == x.t = "number" /\ ~x.nan /\ x.v > 0

\* a + b
Plus(a, b) ==
    IF a.t = "number" /\ b.t = "number"
    THEN IF a.nan \/ b.nan THEN NaN ELSE N(a.v + b.v)
    ELSE S(ToStr(a) \o ToStr(b))

\* String.prototype.toLowerCase
toLowerCase(str) ==
    ByValue(str, LAMBDA s :
        Join([i \in 1..Len(s) |->
                IF \E k \in 1..26 : At(ASCII_LO, 33 + k) = At(s, i)
                THEN At(ASCII_HI, CHOOSE k \in 1..26 : At(ASCII_LO, 33 + k) = At(s, i))
                ELSE At(s, i)]))

---------------------------------------------------------------------------
(* Markup backend: PrintTemplateEngine                                     *)

\* div.textContent = text; return div.innerHTML: null and undefined give an
\* empty text node, and innerHTML writes & < > of a text node as entities
escapeHtml(text) ==
    IF text.t \in {"undefined", "null"} THEN ""
    ELSE ByValue(ToStr(text), LAMBDA s :
            Join([i \in 1..Len(s) |->
                    CASE At(s, i) = "&" -> "&amp;"
                      [] At(s, i) = "<" -> "&lt;"
                      [] At(s, i) = ">" -> "&gt;"
                      [] OTHER          -> At(s, i)]))

\* x.toLowerCase() where x = element[key] || dflt; a TypeError unless x is a
\* string
LowerOf(element, key, dflt) ==
    ByValue(Or(Prop(element, key), S(dflt)), LAMBDA x :
        IF x.t = "string" THEN S(toLowerCase(x.v)) ELSE Throw)

\* the class attribute of renderText / renderStaticText
TextClasses(element, dfltAlignment) ==
    ByValue(<<LowerOf(element, "alignment", dfltAlignment),
              LowerOf(element, "font_size", "NORMAL"),
              LowerOf(element, "font_weight", "NORMAL")>>, LAMBDA c :
        IF Throw \in Range(c) THEN Throw
        ELSE S("text-" \o c[1].v \o " font-" \o c[2].v \o " font-" \o c[3].v))

renderText(element, d) ==
    ByValue(TextClasses(element, "LEFT"), LAMBDA classes :
        IF classes = Throw THEN Throw
        ELSE S("<div class=\"receipt-text " \o classes.v \o "\">"
               \o escapeHtml(replaceVariables(Or(Prop(element, "value"), S("")), d))
               \o "</div>"))

renderStaticText(element) ==
    ByValue(TextClasses(element, "CENTER"), LAMBDA classes :
        IF classes = Throw THEN Throw
        ELSE S("<div class=\"receipt-static-text " \o classes.v \o "\">"
               \o escapeHtml(Or(Prop(element, "value"), S("")))
               \o "</div>"))

renderSeparator == S("<div class=\"receipt-separator\"></div>")

renderNewline == S("<div class=\"receipt-newline\"></div>")

renderPlaceholderBlock(element) ==
    S("<div class=\"receipt-placeholder-block\">"
      \o "<div class=\"placeholder-box\" style=\"height: "
      \o ToStr(Or(Prop(element, "height"), N(9000))) \o "px;\">"
      \o "<div class=\"placeholder-text\">Logo/Image</div>"
      \o "</div>" \o "</div>")

\* data.a || data.b || dflt
Field(d, a, b, dflt) == Or(Or(Prop(d, a), Prop(d, b)), dflt)

renderBillDateRow(d) ==
    ByValue(Or(Prop(d, "bill_date"), Prop(d, "billDate")), LAMBDA date :
        S("<div class=\"receipt-bill-date-row\">"
          \o "<span>Bill No: " \o ToStr(Field(d, "bill_number", "billNumber", S("N/A")))
          \o "</span>"
          \o "<div class=\"receipt-date-time-row\">"
          \o "<span class=\"bill-date\">Date: " \o formatDate(date) \o "</span>"
          \o "<span class=\"bill-time\">Time: " \o formatTime(date) \o "</span>"
          \o "</div>" \o "</div>"))

renderCustomerInfoRow(d) ==
    S("<div class=\"customer-info\">"
      \o "<div class=\"receipt-text text-left font-normal font-normal\">Customer: "
      \o escapeHtml(Field(d, "customer_name", "customerName", S("N/A"))) \o "</div>"
      \o "<div class=\"receipt-text text-left font-normal font-normal\">Mobile No: "
      \o escapeHtml(Field(d, "customer_mobile", "customerMobile", S("N/A"))) \o "</div>"
      \o "</div>")

renderTransactionPaymentRow(d) ==
    ByValue(Or(Prop(d, "cashier"), S("N/A")), LAMBDA cashier :
        S("<div class=\"receipt-transaction-payment-row\">"
          \o "<div class=\"receipt-transaction-info\">"
          \o "<div class=\"receipt-type-payment-row\">"
          \o "<span class=\"transaction-type\">Type: "
          \o ToStr(Field(d, "transaction_type", "transactionType", S("Sale"))) \o "</span>"
          \o "<span class=\"payment-type\">Payment: "
          \o ToStr(Field(d, "payment_type", "paymentType", S("Cash"))) \o "</span>"
          \o "</div>"
          \o (IF cashier # S("N/A") THEN "<span>Cashier: " \o ToStr(cashier) \o "</span>"
              ELSE "")
          \o "</div>" \o "</div>"))

\* the discount row of the calculation renderers: "- 50.00" or "- 10.00%"
\* ("" when data.discount is not above 0)
DiscountOperand(d) ==
    ByValue(Or(Prop(d, "discount"), N(0)), LAMBDA discount :
        IF ~Gt0(discount) THEN ""
        ELSE IF Field(d, "discount_type", "discountType", S("amount"))
                    \in {S("percentage"), S("percent")}
             THEN formatIndianNumber(discount) \o "%"
             ELSE formatIndianNumber(discount))

renderTransactionCalculation(element, d) ==
    ByValue(<<LowerOf(element, "alignment", "RIGHT"),
              LowerOf(element, "font_size", "NORMAL"), Items(Prop(d, "items"))>>,
            LAMBDA c :
        IF c[1] = Throw \/ c[2] = Throw THEN Throw
        ELSE S("<div class=\"receipt-transaction-calculation text-" \o c[1].v
               \o " font-" \o c[2].v \o "\">"
               \o "<div class=\"calculation-items\">"
               \o Join([i \in 1..Len(c[3]) |->
                     "<div class=\"calculation-multiply\">"
                     \o formatIndianNumber(Or(Prop(c[3][i], "rate"), N(0))) \o " x "
                     \o formatIndianNumber(Or(Prop(c[3][i], "qty"), N(0))) \o "</div>"])
               \o (IF c[3] # <<>> /\ DiscountOperand(d) # ""
                   THEN "<div class=\"calculation-subtract\">- " \o DiscountOperand(d)
                        \o "</div>"
                   ELSE "")
               \o "</div>" \o "</div>"))

Step(operator, operand) == O([operator |-> S(operator), operand |-> S(operand)])

\* steps generated with the quantity of an item before its rate
GeneratedStepsQtyFirst(d) ==
    ByValue(Items(Prop(d, "items")), LAMBDA items :
        Flatten([i \in 1..Len(items) |->
            <<Step("x", formatIndianNumber(Or(Prop(items[i], "qty"), N(0)))),
              Step("x", formatIndianNumber(Or(Prop(items[i], "rate"), N(0))))>>])
        \o (IF items # <<>> /\ DiscountOperand(d) # ""
            THEN <<Step("-", DiscountOperand(d))>> ELSE <<>>))

\* the steps renderTransactionCalculationV2 pushes when calculationSteps is
\* empty and data.items is not
GeneratedSteps(d) ==
    ByValue(Items(Prop(d, "items")), LAMBDA items :
        Flatten([i \in 1..Len(items) |->
            <<Step("x", formatIndianNumber(Or(Prop(items[i], "rate"), N(0)))),
              Step("x", formatIndianNumber(Or(Prop(items[i], "qty"), N(0))))>>])
        \o (IF items # <<>> /\ DiscountOperand(d) # ""
            THEN <<Step("-", DiscountOperand(d))>> ELSE <<>>))

\* calculationSteps (const calculationSteps = data.calculation_steps || [])
\* as it stands when the pushes are done
CalculationSteps(d) ==
    ByValue(Items(Or(Prop(d, "calculation_steps"), A(<<>>))), LAMBDA steps :
        IF steps = <<>> THEN GeneratedSteps(d) ELSE steps)

\* the data context after renderTransactionCalculationV2: the pushes go to
\* the array data.calculation_steps holds, when it holds one
PushedInto(d) ==
    IF Prop(d, "calculation_steps") = A(<<>>)
    THEN O([d.v EXCEPT !.calculation_steps = A(GeneratedSteps(d))])
    ELSE d

\* the filter with the isFinal tag left out
IsFinalizingByOperator(step) ==
    Or(Prop(step, "operator"), S("")) \in {S("="), S("%"), S("GT"), S("M+"), S("M-")}

IsFinalizing(step) ==
    \/ Prop(step, "isFinal") = B(TRUE)
    \/ Or(Prop(step, "operator"), S("")) \in {S("="), S("%"), S("GT"), S("M+"), S("M-")}

renderTransactionCalculationV2(element, d) ==
    ByValue(<<LowerOf(element, "alignment", "RIGHT"),
              LowerOf(element, "font_size", "NORMAL"),
              SelectSeq(CalculationSteps(d), LAMBDA step : ~IsFinalizing(step))>>,
            LAMBDA c :
        IF c[1] = Throw \/ c[2] = Throw THEN Throw
        ELSE S("<div class=\"receipt-transaction-calculation-v2 text-" \o c[1].v
               \o " font-" \o c[2].v \o "\">"
               \o "<div class=\"calculation-steps\">"
               \o Join([i \in 1..Len(c[3]) |->
                     "<div class=\"calculation-step\">"
                     \o "<span class=\"calculation-operator\">"
                     \o escapeHtml(Or(Prop(c[3][i], "operator"), S(""))) \o "</span>"
                     \o "<span class=\"calculation-operand\">"
                     \o escapeHtml(Or(Prop(c[3][i], "operand"), S(""))) \o "</span>"
                     \o "</div>"])
               \o "</div>" \o "</div>"))

renderItemHeaderRow ==
    S("<div class=\"receipt-item-header-row\">" \o "<div class=\"item-table\">"
      \o "<div class=\"item-header-row\">"
      \o "<span class=\"item-sno\">#</span>" \o "<span class=\"item-name\">Item</span>"
      \o "<span class=\"item-qty\">Qty</span>" \o "<span class=\"item-price\">Price</span>"
      \o "<span class=\"item-amount\">Amount</span>"
      \o "</div>" \o "</div>" \o "</div>")

\* item.slNo !== undefined ? item.slNo : index + 1
SlNo(item, i) == IF Prop(item, "slNo") # Undefined THEN Prop(item, "slNo") ELSE N(i * 100)

renderBillItems(d) ==
    ByValue(Items(Or(Prop(d, "items"), A(<<>>))), LAMBDA items :
        S("<div class=\"receipt-bill-items\">" \o "<div class=\"item-table\">"
          \o Join([i \in 1..Len(items) |->
                "<div class=\"bill-item-row\">"
                \o "<span class=\"item-sno\">" \o ToStr(SlNo(items[i], i)) \o "</span>"
                \o "<span class=\"item-name\">"
                \o escapeHtml(Or(Prop(items[i], "name"), S("Item"))) \o "</span>"
                \o "<span class=\"item-qty\">"
                \o ToStr(Or(Prop(items[i], "qty"), N(0))) \o "</span>"
                \o "<span class=\"item-price\">"
                \o formatNumberLimited(Or(Prop(items[i], "rate"), N(0)), 7) \o "</span>"
                \o "<span class=\"item-amount\">"
                \o formatNumberLimited(Or(Prop(items[i], "amount"), N(0)), 8) \o "</span>"
                \o "</div>"])
          \o "</div>" \o "</div>"))

RECURSIVE TotalQty(_, _)
\* items.reduce((sum, item) => sum + (item.qty || 0), 0) over the first n items
TotalQty(items, n) ==
    IF n = 0 THEN N(0)
    ELSE ByValue(TotalQty(items, n - 1), LAMBDA sum :
            Plus(sum, Or(Prop(items[n], "qty"), N(0))))

renderTotalQtyItemsRow(d) ==
    ByValue(Items(Or(Prop(d, "items"), A(<<>>))), LAMBDA items :
        S("<div class=\"receipt-total-qty-items-row\">"
          \o "<div class=\"total-row\"><span>Total Qty: "
          \o ToStr(TotalQty(items, Len(items)))
          \o "</span><span>Total Items: " \o IntStr(Len(items)) \o "</span></div>"
          \o "</div>"))

\* (subtotal * discount) / 100 as toFixed(2) prints it
PercentOf(subtotal, discount) ==
    IF subtotal.t = "number" /\ discount.t = "number" /\ ~subtotal.nan /\ ~discount.nan
    THEN N((subtotal.v * discount.v + 5000) \div 10000)
    ELSE NaN

\* the "Discount" row with the percentage itself shown as the amount
DiscountRowVerbatim(d) ==
    ByValue(<<Or(Prop(d, "subtotal"), N(0)), Or(Prop(d, "discount"), N(0))>>, LAMBDA c :
        IF ~Gt0(c[2]) THEN ""
        ELSE "<div class=\"total-row\"><span>"
             \o (IF Field(d, "discount_type", "discountType", S("amount"))
                        \in {S("percentage"), S("percent")}
                 THEN "Discount -" \o ToStr(c[2]) \o "%" \o ":</span><span>"
                      \o formatCurrency(c[2])
                 ELSE "Discount (" \o RUPEE \o ")" \o ":</span><span>"
                      \o formatCurrency(c[2]))
             \o "</span></div>")

\* the "Discount" row of renderTotalAmountRow
DiscountRow(d) ==
    ByValue(<<Or(Prop(d, "subtotal"), N(0)), Or(Prop(d, "discount"), N(0))>>, LAMBDA c :
        IF ~Gt0(c[2]) THEN ""
        ELSE "<div class=\"total-row\"><span>"
             \o (IF Field(d, "discount_type", "discountType", S("amount"))
                        \in {S("percentage"), S("percent")}
                 THEN "Discount -" \o ToStr(c[2]) \o "%" \o ":</span><span>"
                      \o formatCurrency(PercentOf(c[1], c[2]))
                 ELSE "Discount (" \o RUPEE \o ")" \o ":</span><span>"
                      \o formatCurrency(c[2]))
             \o "</span></div>")

\* a tax row shown whenever the tax is present, whatever its amount
TaxRowWhenPresent(d, key, label) ==
    ByValue(Prop(Or(Prop(d, "tax"), O(<<>>)), key), LAMBDA t :
        IF Truthy(t)
        THEN "<div class=\"total-row\"><span>" \o label \o " @ " \o ToStr(Prop(t, "rate"))
             \o "%:</span><span>" \o formatCurrency(Prop(t, "amount")) \o "</span></div>"
        ELSE "")

\* a tax row of renderTotalAmountRow: if (tax.cgst && tax.cgst.amount > 0)
TaxRow(d, key, label) ==
    ByValue(Prop(Or(Prop(d, "tax"), O(<<>>)), key), LAMBDA t :
        IF Truthy(t) /\ Gt0(Prop(t, "amount"))
        THEN "<div class=\"total-row\"><span>" \o label \o " @ " \o ToStr(Prop(t, "rate"))
             \o "%:</span><span>" \o formatCurrency(Prop(t, "amount")) \o "</span></div>"
        ELSE "")

\* the TOTAL row of renderTotalAmountRow and renderTotalAmountRowSimple
TotalFinalRow(d) ==
    "<div class=\"total-row total-final\"><span>TOTAL:</span><span>"
    \o formatCurrency(Or(Prop(d, "total"), N(0))) \o "</span></div>"

renderTotalAmountRow(d) ==
    S("<div class=\"receipt-total-amount-row\">"
      \o "<div class=\"total-row\"><span>Subtotal:</span><span>"
      \o formatCurrency(Or(Prop(d, "subtotal"), N(0))) \o "</span></div>"
      \o DiscountRow(d)
      \o TaxRow(d, "cgst", "CGST") \o TaxRow(d, "sgst", "SGST") \o TaxRow(d, "igst", "IGST")
      \o TotalFinalRow(d)
      \o "</div>")

renderTotalAmountRowSimple(d) ==
    S("<div class=\"receipt-total-amount-row\">" \o TotalFinalRow(d) \o "</div>")

renderFooterMessage ==
    S("<div class=\"receipt-footer-message\">"
      \o "<div class=\"receipt-static-text text-center font-small font-normal\">"
      \o "Thank you for shopping with us! Visit again</div>"
      \o "</div>")

\* element.value ? replaceVariables(element.value, data) : data.qr_data || ''
QrData(element, d) ==
    IF Truthy(Prop(element, "value"))
    THEN replaceVariables(Prop(element, "value"), d)
    ELSE Or(Prop(d, "qr_data"), S(""))

renderQRCode(element, d) ==
    ByValue(LowerOf(element, "size", "MEDIUM"), LAMBDA size :
        IF size = Throw THEN Throw
        ELSE S("<div class=\"receipt-qr-code\">"
               \o "<div class=\"qr-placeholder qr-" \o size.v \o "\" data-qr=\""
               \o escapeHtml(QrData(element, d)) \o "\">"
               \o "<div class=\"qr-text\">QR Code</div>"
               \o "</div>"
               \o "<div class=\"receipt-static-text text-center font-normal font-normal\">"
               \o "SCAN TO PAY</div>"
               \o "</div>"))

renderCutPaper == S("")

\* the element types the renderers table of renderElement names
RendererTypes ==
    {"text", "static_text", "separator", "newline", "placeholder_block",
     "bill_date_row", "customer_info_row", "transaction_payment_row",
     "transaction_calculation", "transaction_calculation_v2", "item_header_row",
     "bill_items", "total_qty_items_row", "total_amount_row",
     "total_amount_row_simple", "footer_message", "qr_code", "cut_paper"}

\* renderElement: what it returns (ret) and the data context it leaves (data).
\* renderers is an object literal, so renderers[element.type] also finds what
\* Object.prototype holds: constructor is Object, which hands the element
\* back; toString called without a receiver gives "[object Undefined]"; the
\* other methods throw a TypeError without a receiver
renderElement(element, d) ==
    IF element.t \in {"undefined", "null"} THEN [ret |-> Throw, data |-> d]
    ELSE ByValue(ToStr(Prop(element, "type")), LAMBDA type :
      [data |-> IF type = "transaction_calculation_v2" THEN PushedInto(d) ELSE d,
       ret |->
        CASE type = "text"                       -> renderText(element, d)
          [] type = "static_text"                -> renderStaticText(element)
          [] type = "separator"                  -> renderSeparator
          [] type = "newline"                    -> renderNewline
          [] type = "placeholder_block"          -> renderPlaceholderBlock(element)
          [] type = "bill_date_row"              -> renderBillDateRow(d)
          [] type = "customer_info_row"          -> renderCustomerInfoRow(d)
          [] type = "transaction_payment_row"    -> renderTransactionPaymentRow(d)
          [] type = "transaction_calculation"    -> renderTransactionCalculation(element, d)
          [] type = "transaction_calculation_v2" -> renderTransactionCalculationV2(element, d)
          [] type = "item_header_row"            -> renderItemHeaderRow
          [] type = "bill_items"                 -> renderBillItems(d)
          [] type = "total_qty_items_row"        -> renderTotalQtyItemsRow(d)
          [] type = "total_amount_row"           -> renderTotalAmountRow(d)
          [] type = "total_amount_row_simple"    -> renderTotalAmountRowSimple(d)
          [] type = "footer_message"             -> renderFooterMessage
          [] type = "qr_code"                    -> renderQRCode(element, d)
          [] type = "cut_paper"                  -> renderCutPaper
          [] type = "constructor"                -> element
          [] type = "toString"                   -> S("[object Undefined]")
          [] type \in {"hasOwnProperty", "isPrototypeOf", "propertyIsEnumerable",
                       "toLocaleString", "valueOf", "__proto__"} -> Throw
          [] OTHER                               -> S("")])

EMPTY_NO_ELEMENTS == "<div class=\"receipt-empty\">No template elements to preview</div>"
EMPTY_TEMPLATE    == "<div class=\"receipt-empty\">Empty template</div>"

RECURSIVE RenderElements(_, _, _, _)
\* elements.forEach(element => { html += renderElement(...) }) from element i
\* on, then return html || EMPTY_TEMPLATE
RenderElements(elements, i, d, html) ==
    IF i > Len(elements)
    THEN [ret |-> S(IF html = "" THEN EMPTY_TEMPLATE ELSE html), data |-> d]
    ELSE ByValue(renderElement(elements[i], d), LAMBDA r :
            IF r.ret = Throw THEN r
            ELSE ByValue(html \o ToStr(r.ret), LAMBDA h :
                    RenderElements(elements, i + 1, r.data, h)))

\* renderPreview(template, data) with a data context given: what it returns
\* (ret, Throw for a TypeError) and the data context it leaves (data)
renderPreview(t, d) ==
    ByValue(Prop(Prop(t, "receipt_template"), "elements"), LAMBDA elements :
        IF ~Truthy(t) \/ ~Truthy(Prop(t, "receipt_template")) \/ ~Truthy(elements)
        THEN [ret |-> S(EMPTY_NO_ELEMENTS), data |-> d]
        ELSE IF elements.t # "array"
        THEN [ret |-> Throw, data |-> d]
        ELSE RenderElements(elements.v, 1, d, ""))

---------------------------------------------------------------------------
(* Byte backend: ESCPOSGenerator                                           *)

ESC == 27
GS  == 29
ALIGN_LEFT    == 0
ALIGN_CENTER  == 1
ALIGN_RIGHT   == 2
FONT_A        == 0
BOLD          == 8
FONT_B_DOUBLE == 25

initialize == <<ESC, 64>>

cutPaper == <<GS, 86, 0>>

setAlignment(alignment) == <<ESC, 97, alignment>>

setFontStyle(style) == <<ESC, 33, style>>

feedLines(lines) == <<ESC, 100, lines>>

\* the UTF-8 bytes of one UTF-16 code unit, as stringToBytes pushes them
CharBytes(charCode) ==
    IF charCode < 128 THEN <<charCode>>
    ELSE IF charCode < 2048
         THEN <<192 + (charCode \div 64), 128 + (charCode % 64)>>
         ELSE <<224 + (charCode \div 4096), 128 + ((charCode \div 64) % 64),
                128 + (charCode % 64)>>

stringToBytes(str) ==
    ByValue(str, LAMBDA s : Flatten([i \in 1..Len(s) |-> CharBytes(charCodeAt(At(s, i)))]))

printText(text) == stringToBytes(text)

\* a line and the feed that follows it
PrintLine(text) == printText(text) \o feedLines(1)

\* what Object.prototype gives every object literal used as a lookup table
ObjectPrototypeKeys ==
    {"constructor", "toString", "hasOwnProperty", "isPrototypeOf",
     "propertyIsEnumerable", "toLocaleString", "valueOf", "__proto__"}

\* alignMap[alignment] || this.ALIGN_LEFT (an inherited member of alignMap
\* is no number: the Uint8Array stores it as 0)
getAlignment(alignment) ==
    CASE alignment = S("CENTER") -> ALIGN_CENTER
      [] alignment = S("RIGHT")  -> ALIGN_RIGHT
      [] OTHER                   -> ALIGN_LEFT

getFontStyle(fontSize, fontWeight) ==
    IF fontWeight = S("BOLD")
    THEN IF fontSize = S("LARGE") THEN FONT_B_DOUBLE ELSE BOLD
    ELSE FONT_A

getQRSize(size) ==
    CASE size = S("SMALL")  -> 3
      [] size = S("MEDIUM") -> 6
      [] size = S("LARGE")  -> 8
      [] ToStr(size) \in ObjectPrototypeKeys -> 0
      [] OTHER -> 6

getQRErrorCorrection(level) ==
    CASE level = S("L") -> 48
      [] level = S("M") -> 49
      [] level = S("Q") -> 50
      [] level = S("H") -> 51
      [] ToStr(level) \in ObjectPrototypeKeys -> 0
      [] OTHER -> 49

\* Math.floor of a number held in hundredths (substring and repeat counts)
Whole(x) == IF x.t = "number" /\ ~x.nan /\ x.v > 0 THEN x.v \div 100 ELSE 0

RECURSIVE SplitFrom(_, _, _)
\* text.split(' '): the words from position i on, the current word having
\* started at position start
SplitFrom(s, i, start) ==
    IF i > Len(s) THEN <<SubSeq(s, start, Len(s))>>
    ELSE IF At(s, i) = " "
         THEN <<SubSeq(s, start, i - 1)>> \o SplitFrom(s, i + 1, i + 1)
         ELSE SplitFrom(s, i + 1, start)

RECURSIVE WrapWords(_, _, _, _, _)
\* words.forEach(...) of wrapText from word k on, then the last push
WrapWords(words, k, lines, currentLine, maxWidth) ==
    IF k > Len(words)
    THEN IF currentLine # "" THEN Append(lines, currentLine) ELSE lines
    ELSE ByValue(IF currentLine # "" THEN currentLine \o " " \o words[k] ELSE words[k],
                 LAMBDA testLine :
            IF Len(testLine) * 100 <= maxWidth.v
            THEN WrapWords(words, k + 1, lines, testLine, maxWidth)
            ELSE ByValue(<<IF currentLine # "" THEN Append(lines, currentLine) ELSE lines,
                           IF Len(words[k]) * 100 > maxWidth.v
                           THEN Slice(words[k], 0, Whole(maxWidth)) ELSE words[k]>>,
                         LAMBDA c : WrapWords(words, k + 1, c[1], c[2], maxWidth)))

\* a wrap that puts every word on a line of its own
wrapTextWordPerLine(text, maxWidth) ==
    ByValue(text, LAMBDA s :
        IF Len(s) * 100 <= maxWidth.v THEN <<s>>
        ELSE ByValue(SplitFrom(s, 1, 1), LAMBDA words :
             ByValue(SelectSeq([k \in 1..Len(words) |->
                                   Slice(words[k], 0, Whole(maxWidth))],
                               LAMBDA line : line # ""), LAMBDA lines :
                IF Len(lines) > 0 THEN lines ELSE <<Slice(s, 0, Whole(maxWidth))>>)))

\* a wrap that leaves out the last of several lines
wrapTextWithoutLastLine(text, maxWidth) ==
    ByValue(text, LAMBDA s :
        IF Len(s) * 100 <= maxWidth.v THEN <<s>>
        ELSE ByValue(SplitFrom(s, 1, 1), LAMBDA words :
             ByValue(WrapWords(words, 1, <<>>, "", maxWidth), LAMBDA lines :
                IF Len(lines) > 1 THEN SubSeq(lines, 1, Len(lines) - 1)
                ELSE IF Len(lines) > 0 THEN lines
                ELSE <<Slice(s, 0, Whole(maxWidth))>>)))

\* wrapText(text, maxWidth): text a string, maxWidth a number
wrapText(text, maxWidth) ==
    ByValue(text, LAMBDA s :
        IF Len(s) * 100 <= maxWidth.v THEN <<s>>
        ELSE ByValue(SplitFrom(s, 1, 1), LAMBDA words :
             ByValue(WrapWords(words, 1, <<>>, "", maxWidth), LAMBDA lines :
                IF Len(lines) > 0 THEN lines ELSE <<Slice(s, 0, Whole(maxWidth))>>)))

\* lines.forEach(line => { printText(line); feedLines(1) })
PrintLines(lines) == Flatten([i \in 1..Len(lines) |-> PrintLine(lines[i])])

\* the commands of renderText / renderStaticText for a text already resolved
\* (a TypeError when it is no string: wrapText needs text.split)
TextCommands(element, text, characterWidth) ==
    IF text.t # "string" THEN Throw
    ELSE setAlignment(getAlignment(Prop(element, "alignment")))
         \o setFontStyle(getFontStyle(Prop(element, "font_size"),
                                      Prop(element, "font_weight")))
         \o PrintLines(wrapText(text.v, characterWidth))
         \o setFontStyle(FONT_A)
         \o setAlignment(ALIGN_LEFT)

ESCPOS_renderText(element, d, characterWidth) ==
    TextCommands(element,
                 ESCPOS_replaceVariables(Or(Prop(element, "value"), S("")), d),
                 characterWidth)

ESCPOS_renderStaticText(element, characterWidth) ==
    TextCommands(element, Or(Prop(element, "value"), S("")), characterWidth)

\* char.repeat(n)
Repeat(char, n) == Join([i \in 1..n |-> char])

\* the line of renderSeparator
SeparatorLine(element, characterWidth) ==
    Repeat(IF Or(Prop(element, "style"), S("DASHED")) = S("DASHED") THEN "-" ELSE "=",
           Whole(Or(Prop(element, "length"), characterWidth)))

\* a renderSeparator that leaves the alignment at CENTER
ESCPOS_renderSeparatorNoReset(element, characterWidth) ==
    setAlignment(ALIGN_CENTER)
    \o PrintLine(SeparatorLine(element, characterWidth))

ESCPOS_renderSeparator(element, characterWidth) ==
    setAlignment(ALIGN_CENTER)
    \o PrintLine(SeparatorLine(element, characterWidth))
    \o setAlignment(ALIGN_LEFT)

ESCPOS_renderNewline == feedLines(1)

ESCPOS_renderBillDateRow(d) ==
    ByValue(Or(Prop(d, "bill_date"), Prop(d, "billDate")), LAMBDA date :
        setAlignment(ALIGN_LEFT) \o setFontStyle(FONT_A)
        \o PrintLine("Bill No: " \o ToStr(Field(d, "bill_number", "billNumber", S("N/A"))))
        \o PrintLine("Date: " \o ESCPOS_formatDate(date))
        \o PrintLine("Time: " \o ESCPOS_formatTime(date)))

ESCPOS_renderTransactionPaymentRow(d) ==
    ByValue(Or(Prop(d, "cashier"), S("N/A")), LAMBDA cashier :
        setAlignment(ALIGN_LEFT) \o setFontStyle(FONT_A)
        \o PrintLine("Type: "
                     \o ToStr(Field(d, "transaction_type", "transactionType", S("Sale"))))
        \o PrintLine("Payment: "
                     \o ToStr(Field(d, "payment_type", "paymentType", S("Cash"))))
        \o (IF cashier # S("N/A") THEN PrintLine("Cashier: " \o ToStr(cashier))
            ELSE <<>>))

ESCPOS_renderTransactionCalculation(element, d) ==
    ByValue(Items(Prop(d, "items")), LAMBDA items :
        setAlignment(getAlignment(Or(Prop(element, "alignment"), S("RIGHT"))))
        \o setFontStyle(FONT_A)
        \o Flatten([i \in 1..Len(items) |->
              PrintLine(ToStr(Or(Prop(items[i], "name"), S("Item"))) \o " x "
                        \o ToStr(Or(Prop(items[i], "qty"), N(0))) \o " = "
                        \o ESCPOS_formatCurrency(Or(Prop(items[i], "amount"), N(0))))])
        \o setAlignment(ALIGN_LEFT))

ESCPOS_renderItemHeaderRow(characterWidth) ==
    setAlignment(ALIGN_LEFT) \o setFontStyle(BOLD)
    \o printText(IF characterWidth = N(3200)
                 THEN "Sl No  Item          Qty  Price  Amount"
                 ELSE "Sl No  Item                  Qty    Price    Amount")
    \o feedLines(1)
    \o setFontStyle(FONT_A)

\* s.padEnd(n) and s.padStart(n)
padEnd(s, n) == s \o Repeat(" ", n - Len(s))
padStart(s, n) == Repeat(" ", n - Len(s)) \o s

\* the line renderBillItems prints for item number i, the five column widths
\* being w
ItemLine(item, i, w) ==
    padEnd(ToStr(SlNo(item, i)), w[1])
    \o Slice(padEnd(ToStr(Or(Prop(item, "name"), S("Item"))), w[2]), 0, w[2])
    \o padStart(ToStr(Or(Prop(item, "qty"), N(0))), w[3])
    \o padStart(ESCPOS_formatCurrency(Or(Prop(item, "rate"), N(0))), w[4])
    \o padStart(ESCPOS_formatCurrency(Or(Prop(item, "amount"), N(0))), w[5])

ESCPOS_renderBillItems(d, characterWidth) ==
    ByValue(Items(Or(Prop(d, "items"), A(<<>>))), LAMBDA items :
        setAlignment(ALIGN_LEFT) \o setFontStyle(FONT_A)
        \o Flatten([i \in 1..Len(items) |->
              PrintLine(ItemLine(items[i], i,
                                 IF characterWidth = N(3200) THEN <<5, 12, 4, 5, 6>>
                                 ELSE <<6, 20, 6, 8, 8>>))]))

\* a tax line of the generator's renderTotalAmountRow
ESCPOS_TaxLine(d, key, label) ==
    ByValue(Prop(Or(Prop(d, "tax"), O(<<>>)), key), LAMBDA t :
        IF Truthy(t) /\ Gt0(Prop(t, "amount"))
        THEN PrintLine(label \o " @ " \o ToStr(Prop(t, "rate")) \o "%:  "
                       \o ESCPOS_formatCurrency(Prop(t, "amount")))
        ELSE <<>>)

ESCPOS_renderTotalAmountRow(d) ==
    setAlignment(ALIGN_RIGHT) \o setFontStyle(FONT_A)
    \o PrintLine("Subtotal:        " \o ESCPOS_formatCurrency(Or(Prop(d, "subtotal"), N(0))))
    \o (IF Gt0(Or(Prop(d, "discount"), N(0)))
        THEN PrintLine("Discount:        "
                       \o ESCPOS_formatCurrency(Or(Prop(d, "discount"), N(0))))
        ELSE <<>>)
    \o ESCPOS_TaxLine(d, "cgst", "CGST") \o ESCPOS_TaxLine(d, "sgst", "SGST")
    \o ESCPOS_TaxLine(d, "igst", "IGST")
    \o setFontStyle(FONT_B_DOUBLE)
    \o PrintLine("Total:           " \o ESCPOS_formatCurrency(Or(Prop(d, "total"), N(0))))
    \o setFontStyle(FONT_A)
    \o setAlignment(ALIGN_LEFT)

ESCPOS_renderQRCode(element, d) ==
    ByValue(stringToBytes(ToStr(QrData(element, d))), LAMBDA dataBytes :
        setAlignment(ALIGN_CENTER)
        \o <<GS, 40, 107, 4, 0, 49, 65, 50, 0>>
        \o <<GS, 40, 107, 3, 0, 49, 67, getQRSize(Or(Prop(element, "size"), S("MEDIUM")))>>
        \o <<GS, 40, 107, 3, 0, 49, 69,
             getQRErrorCorrection(Or(Prop(element, "error_correction"), S("M")))>>
        \o <<GS, 40, 107, (Len(dataBytes) + 3) % 256, ((Len(dataBytes) + 3) \div 256) % 256,
             49, 80, 48>>
        \o dataBytes
        \o <<GS, 40, 107, 3, 0, 49, 81, 48>>
        \o feedLines(1)
        \o setAlignment(ALIGN_LEFT))

\* processElement: the commands of one element (Throw for a TypeError);
\* the default branch only warns
processElement(element, d, characterWidth) ==
    IF element.t \in {"undefined", "null"} THEN Throw
    ELSE ByValue(Prop(element, "type"), LAMBDA type :
        CASE type = S("text")          -> ESCPOS_renderText(element, d, characterWidth)
          [] type = S("static_text")   -> ESCPOS_renderStaticText(element, characterWidth)
          [] type = S("separator")     -> ESCPOS_renderSeparator(element, characterWidth)
          [] type = S("newline")       -> ESCPOS_renderNewline
          [] type = S("bill_date_row") -> ESCPOS_renderBillDateRow(d)
          [] type = S("transaction_payment_row") -> ESCPOS_renderTransactionPaymentRow(d)
          [] type = S("transaction_calculation") ->
                 ESCPOS_renderTransactionCalculation(element, d)
          [] type = S("item_header_row")  -> ESCPOS_renderItemHeaderRow(characterWidth)
          [] type = S("bill_items")       -> ESCPOS_renderBillItems(d, characterWidth)
          [] type = S("total_amount_row") -> ESCPOS_renderTotalAmountRow(d)
          [] type = S("qr_code")          -> ESCPOS_renderQRCode(element, d)
          [] type = S("cut_paper")        -> <<>>
          [] OTHER                        -> <<>>)

\* new Uint8Array(commands)
Uint8Array(commands) ==
    [t |-> "bytes", v |-> [i \in 1..Len(commands) |-> commands[i] % 256]]

\* the turns of the forEach of generate that ended before a TypeError
RECURSIVE Completed(_)
Completed(parts) ==
    IF parts = <<>> \/ Head(parts) = Throw THEN <<>>
    ELSE <<Head(parts)>> \o Completed(Tail(parts))

\* generate with the elements taken from the last to the first
generateBackwards(t, d) ==
    ByValue(Prop(Prop(t, "receipt_template"), "elements"), LAMBDA elements :
        IF ~Truthy(t) \/ ~Truthy(Prop(t, "receipt_template")) \/ elements.t # "array"
        THEN [ret |-> Throw, elementCommands |-> <<>>]
        ELSE ByValue([i \in 1..Len(elements.v) |->
                        processElement(elements.v[Len(elements.v) + 1 - i], d,
                            Or(Prop(Prop(t, "receipt_template"), "characterWidth"),
                               N(3200)))],
                     LAMBDA parts :
                IF Throw \in Range(parts)
                THEN [ret |-> Throw, elementCommands |-> Completed(parts)]
                ELSE [ret |-> Uint8Array(initialize \o Flatten(parts)
                                         \o feedLines(3) \o cutPaper),
                      elementCommands |-> parts]))

\* generate(template, data): what it returns (ret, Throw for an exception)
\* and the elementCommands of the forEach turns that ended
generate(t, d) ==
    ByValue(Prop(Prop(t, "receipt_template"), "elements"), LAMBDA elements :
        IF ~Truthy(t) \/ ~Truthy(Prop(t, "receipt_template")) \/ elements.t # "array"
        THEN [ret |-> Throw, elementCommands |-> <<>>]
        ELSE ByValue([i \in 1..Len(elements.v) |->
                        processElement(elements.v[i], d,
                            Or(Prop(Prop(t, "receipt_template"), "characterWidth"),
                               N(3200)))],
                     LAMBDA parts :
                IF Throw \in Range(parts)
                THEN [ret |-> Throw, elementCommands |-> Completed(parts)]
                ELSE [ret |-> Uint8Array(initialize \o Flatten(parts)
                                         \o feedLines(3) \o cutPaper),
                      elementCommands |-> parts]))

---------------------------------------------------------------------------
(* The two backends at work: a template and a data context are handed to   *)
(* renderPreview and to generate, any number of times and in any order     *)

MaxElements == 2   \* a template holds up to MaxElements elements

Element(type) == O([type |-> S(type)])

\* one element of every type the renderers table names, elements of types it
\* does not name, and elements with the attributes the renderers read
Elements ==
    {Element(type) : type \in RendererTypes \cup {"barcode", "constructor",
                                                  "toString", "hasOwnProperty"}}
    \cup {O([type |-> S("text"), value |-> S("Bill ${bill_number} <${calculation_steps}>"),
             alignment |-> S("CENTER"), font_size |-> S("LARGE"),
             font_weight |-> S("BOLD")]),
          O([type |-> S("text"),
             value |-> S("Thank you for shopping at ${shop_name} today dear friends")]),
          O([type |-> S("static_text"), value |-> S("Tea & Co"),
             alignment |-> S("RIGHT"), font_weight |-> S("BOLD")]),
          O([type |-> S("separator"), style |-> S("SOLID"), length |-> N(500)]),
          O([type |-> S("separator"), length |-> N(4000)]),
          O([type |-> S("transaction_calculation"), alignment |-> S("CENTER")]),
          O([type |-> S("qr_code"), value |-> S("upi://${shop_name}"),
             size |-> S("LARGE"), error_correction |-> S("H")]),
          O([value |-> S("no type")])}

\* the elements that are put next to every other one
Neighbours ==
    {Element("transaction_calculation_v2"), Element("barcode"), Element("constructor"),
     Element("total_amount_row"), Element("cut_paper"),
     O([type |-> S("text"), value |-> S("Bill ${bill_number} <${calculation_steps}>"),
        alignment |-> S("CENTER"), font_size |-> S("LARGE"),
        font_weight |-> S("BOLD")])}

ElementLists ==
    {<<e>> \o q : e \in Elements, q \in SeqsUpTo(Neighbours, MaxElements - 1)}
    \cup {q \o <<e>> : e \in Elements, q \in SeqsUpTo(Neighbours, MaxElements - 1)}
    \cup {<<>>}

\* well-formed templates of both paper widths, and malformed ones
Templates ==
    {Root(A(q), Undefined, Undefined) : q \in ElementLists}
    \cup {Root(A(<<e>>), N(4800), N(8000)) : e \in Elements}
    \cup {Root(e, N(3200), N(5800)) : e \in {Undefined, Null, S("abc"), O([length |-> N(0)])}}
    \cup {Undefined, O([name |-> S("t")]), O([receipt_template |-> Null])}

Item(name, qty, rate, amount) ==
    O([name |-> S(name), qty |-> N(qty), rate |-> N(rate), amount |-> N(amount)])

\* data contexts: a bill whose calculation_steps is an empty array, a
\* transaction with its steps given, a bill whose texts hold markup, and a
\* context with nothing to show
DataContexts ==
    { O([shop_name |-> S("Tohands Store"), bill_number |-> S("B-1"),
         bill_date |-> S("2025-01-15T14:30:05"), cashier |-> S("Asha"),
         qr_data |-> S("upi://pay"),
         items |-> A(<<Item("Tea & Co", 200, 10000, 20000),
                       Item("Rice", 150, 12345678, 185185170)>>),
         subtotal |-> N(100000), discount |-> N(1000), discount_type |-> S("percentage"),
         tax |-> O([cgst |-> O([rate |-> N(900), amount |-> N(4500)]),
                    igst |-> O([rate |-> N(0), amount |-> N(0)])]),
         total |-> N(104000), calculation_steps |-> A(<<>>)]),
      O([shop_name |-> S("Tohands Store"), billNumber |-> N(700),
         bill_date |-> S("tomorrow"), customer_name |-> S("A <b>"),
         transaction_type |-> S("Return"),
         items |-> A(<<O([slNo |-> N(900), qty |-> N(100)])>>),
         discount |-> N(5000), total |-> N(-10000),
         calculation_steps |->
            A(<<Step("x", "100.00"), Step("+", "150.00"),
                O([operator |-> S("="), operand |-> S("250.00"), isFinal |-> B(TRUE)])>>)]),
      O([shop_name |-> S("Tohands <Store>"), bill_number |-> S("<b>7</b>"),
         bill_date |-> S("2025-01-15T14:30:05"),
         customer_name |-> S("<a>Ravi</a>"), customer_mobile |-> S("<tt>98</tt>"),
         transaction_type |-> S("<i>Sale</i>"), payment_type |-> S("<u>UPI</u>"),
         cashier |-> S("<em>Asha Kumari Venkataraman</em>"), qr_data |-> S("<q>upi</q>"),
         items |-> A(<<O([name |-> S("<h1>Tea</h1>"), slNo |-> S("<s>1</s>"),
                          qty |-> S("<p>2"), rate |-> N(10000), amount |-> N(20000)])>>),
         subtotal |-> N(20000),
         tax |-> O([cgst |-> O([rate |-> S("<9>"), amount |-> N(1800)])]),
         total |-> N(21800),
         calculation_steps |-> A(<<Step("<x>", "<o>")>>)]),
      O([shop_name |-> S("")]) }

InitRender ==
    /\ template \in Templates
    /\ data \in DataContexts
    /\ fn = "none"
    /\ arg = NoArg
    /\ ret = Undefined
    /\ thrown = FALSE
    /\ elementCommands = <<>>

\* PrintTemplateEngine.renderPreview(template, data)
RenderPreview ==
    \E r \in {renderPreview(template, data)} :
        /\ fn' = "renderPreview"
        /\ arg' = <<template, data>>
        /\ thrown' = (r.ret = Throw)
        /\ ret' = IF r.ret = Throw THEN Undefined ELSE r.ret
        /\ data' = r.data
        /\ elementCommands' = <<>>
        /\ UNCHANGED template

\* new ESCPOSGenerator().generate(template, data)
Generate ==
    \E r \in {generate(template, data)} :
        /\ fn' = "generate"
        /\ arg' = <<template, data>>
        /\ thrown' = (r.ret = Throw)
        /\ ret' = IF r.ret = Throw THEN Undefined ELSE r.ret
        /\ elementCommands' = r.elementCommands
        /\ UNCHANGED <<template, data>>

Next ==
    \/ RenderPreview
    \/ Generate

Spec == InitRender /\ [][Next]_vars

---------------------------------------------------------------------------
(* Claims about the two backends                                           *)

RenderCalls == {"renderPreview", "generate"}

\* the elements array of a template that has one
ElementsOf(t) == Prop(Prop(t, "receipt_template"), "elements").v

RECURSIVE ModeAfter(_, _, _, _)
\* the printer mode <<alignment, font>> after the printer has read the bytes
\* from position i on, having been at <<alignment, font>> before: ESC @
\* resets it, ESC a n and ESC ! n set it, ESC d n, GS V n and the GS ( k
\* blocks (with their pL + 256 pH parameter bytes) leave it, as does text
ModeAfter(bytes, i, alignment, font) ==
    IF i > Len(bytes) THEN <<alignment, font>>
    ELSE IF bytes[i] = ESC /\ i < Len(bytes)
    THEN CASE bytes[i + 1] = 64 -> ModeAfter(bytes, i + 2, ALIGN_LEFT, FONT_A)
           [] bytes[i + 1] = 97 -> ModeAfter(bytes, i + 3, bytes[i + 2], font)
           [] bytes[i + 1] = 33 -> ModeAfter(bytes, i + 3, alignment, bytes[i + 2])
           [] OTHER             -> ModeAfter(bytes, i + 3, alignment, font)
    ELSE IF bytes[i] = GS /\ i < Len(bytes)
    THEN IF bytes[i + 1] = 40
         THEN ModeAfter(bytes, i + 5 + bytes[i + 3] + 256 * bytes[i + 4], alignment, font)
         ELSE ModeAfter(bytes, i + 3, alignment, font)
    ELSE LET controls == {j \in i..Len(bytes) : bytes[j] \in {ESC, GS}}
         IN IF controls = {} THEN <<alignment, font>>
            ELSE ModeAfter(bytes, CHOOSE j \in controls : \A k \in controls : j <= k,
                           alignment, font)

\* the printer mode when the printer, switched on in any mode, has read the
\* stream generate returned up to the end of the commands of element k
ModeAtEndOf(k) ==
    ModeAfter(SubSeq(ret.v, 1, Len(initialize) + Len(Flatten(SubSeq(elementCommands, 1, k)))),
              1, ALIGN_RIGHT, FONT_B_DOUBLE)

\* C1: in the stream generate returns, the printer mode is (alignment LEFT,
\* font FONT_A) where the commands of each element start and where they end:
\* no element leaves another alignment or font to the element after it.
C1_ElementsStartAndEndAtDefaultMode ==
    (fn = "generate" /\ ~thrown) =>
        \A k \in 0..Len(elementCommands) : ModeAtEndOf(k) = <<ALIGN_LEFT, FONT_A>>

\* generate has run on two elements, the first of which has printed its last
\* line right-aligned in the double-height font
C1_Witness ==
    /\ fn = "generate" /\ ~thrown
    /\ Len(elementCommands) = 2
    /\ elementCommands[2] # <<>>
    /\ \E i \in 1..Len(elementCommands[1]) - 5 :
          SubSeq(elementCommands[1], i, i + 5) = <<ESC, 97, ALIGN_RIGHT, ESC, 33, FONT_A>>
    /\ \E i \in 1..Len(elementCommands[1]) - 2 :
          SubSeq(elementCommands[1], i, i + 2) = <<ESC, 33, FONT_B_DOUBLE>>

\* a template object whose receipt_template is missing, or whose elements
\* are missing or no array
Malformed(t) ==
    /\ t.t = "object"
    /\ \/ Prop(t, "receipt_template").t # "object"
       \/ Prop(Prop(t, "receipt_template"), "elements").t # "array"

NoElements == Root(A(<<>>), Undefined, Undefined)

\* C2: for a malformed template (receipt_template missing, elements missing
\* or not an array) renderPreview and generate both return, without throwing,
\* what they return for a template with zero elements.
C2_MalformedTemplateRendersAsNoElements ==
    (fn \in RenderCalls /\ Malformed(arg[1])) =>
        /\ ~thrown
        /\ ret = IF fn = "renderPreview" THEN renderPreview(NoElements, arg[2]).ret
                 ELSE generate(NoElements, arg[2]).ret

IsKnownType(element) == ToStr(Prop(element, "type")) \in RendererTypes

\* the template without its elements of unknown type
WithoutUnknown(t) ==
    O([receipt_template |->
        O([Prop(t, "receipt_template").v EXCEPT
              !.elements = A(SelectSeq(ElementsOf(t), IsKnownType))])])

\* C3: an element whose type is no known variant adds nothing in either
\* backend (no markup, no commands), the other elements of the template are
\* rendered as they are without it, and the render call does not fail.
C3_UnknownTypeAddsNothing ==
    (/\ fn \in RenderCalls
     /\ HasElementsArray(arg[1])
     /\ \E k \in 1..Len(ElementsOf(arg[1])) : ~IsKnownType(ElementsOf(arg[1])[k]))
    => LET base == IF fn = "renderPreview"
                   THEN renderPreview(WithoutUnknown(arg[1]), arg[2]).ret
                   ELSE generate(WithoutUnknown(arg[1]), arg[2]).ret
       IN base # Throw =>
            /\ ~thrown
            /\ ret = base
            /\ fn = "generate" =>
                 \A k \in 1..Len(elementCommands) :
                    ~IsKnownType(ElementsOf(arg[1])[k]) => elementCommands[k] = <<>>

\* C4: when renderPreview or generate has returned, the template and the data
\* context (data.items and data.calculation_steps included) hold the values
\* they held when the call was made.
C4_RenderCallsLeaveTheirInputs ==
    fn \in RenderCalls => (template = arg[1] /\ data = arg[2])

\* C10: renderPreview called twice in succession, or generate called twice in
\* succession, on the same template and data context objects gives the same
\* outcome both times.
C10_RenderingTwiceGivesTheSame ==
    [][(fn \in RenderCalls /\ fn' = fn) => (ret' = ret /\ thrown' = thrown)]_vars

---------------------------------------------------------------------------
(* The row renderers called on their own: renderElement of the markup      *)
(* backend and processElement of the byte backend, one call on one element *)
(* and one data context                                                    *)

MaxSteps == 3   \* data.calculation_steps holds up to MaxSteps steps
MaxItems == 2   \* data.items holds up to MaxItems items

RowElements ==
    {Element(type) : type \in {"total_amount_row", "bill_items", "item_header_row",
                               "transaction_calculation", "transaction_calculation_v2",
                               "cut_paper"}}

CharacterWidths == {N(3200), N(4800), N(4000)}

RowItems ==
    {Item("Tea", 200, 10000, 20000), Item("Rice", 150, 12345678, 185185170),
     Item("Basmati Rice Premium 5kg bag", 1200, 9999, 119988),
     Item("Sugar 1kg pk", 100, 123450, 123450),
     Item("", 0, 0, 0),
     Item("Ghee", 100, 999990, 9999999),
     O([name |-> S("Salt"), slNo |-> S("A-1042"), qty |-> N(123400),
        rate |-> N(50), amount |-> N(61700)]),
     O([rate |-> N(99999999), amount |-> N(999999999)])}

Subtotals == {N(100000), N(123450), N(0)}
Discounts == {N(5000), N(1050), N(725), N(0)}

\* data contexts that differ in the discount and its type
DiscountContexts ==
    {O([subtotal |-> s, discount |-> dc, discount_type |-> S(ty), total |-> N(104000),
        items |-> A(<<Item("Tea", 200, 10000, 20000)>>)])
        : s \in Subtotals, dc \in Discounts,
          ty \in {"percentage", "percent", "amount", "flat"}}
    \cup {O([subtotal |-> s, discount |-> dc, discountType |-> S("percentage"),
             items |-> A(<<Item("Tea", 200, 10000, 20000),
                           Item("Rice", 150, 12345678, 185185170)>>)])
             : s \in Subtotals, dc \in Discounts}
    \cup {O([subtotal |-> s, discount |-> dc]) : s \in Subtotals, dc \in Discounts}

\* data contexts that differ in the items
ItemContexts ==
    {O([items |-> A(q), discount |-> N(1000), discount_type |-> S("percent")])
        : q \in SeqsUpTo(RowItems, MaxItems)}

RowSteps ==
    {Step("x", "100.00"), Step("+", "1 < 2 & 3"), Step("-", "10.00%"),
     Step("=", "1,040.00"), Step("%", "5"), Step("GT", "90.00"), Step("M+", "7"),
     Step("M-", "7"),
     O([operator |-> S("x"), operand |-> S("250.00"), isFinal |-> B(TRUE)]),
     O([operator |-> S("="), operand |-> S(RUPEE \o "1,040.00"), isFinal |-> B(TRUE)]),
     O([operator |-> S("+"), operand |-> S("8"), isFinal |-> B(FALSE)]),
     O([operand |-> S("12")])}

\* data contexts that differ in the calculation steps
StepContexts ==
    {O([calculation_steps |-> A(q), items |-> A(<<Item("Tea", 200, 10000, 20000)>>)])
        : q \in SeqsUpTo(RowSteps, MaxSteps)}

\* a tax of the data context: absent, with amount 0, with an amount above 0
TaxParts(rate) ==
    {Undefined, O([rate |-> N(rate), amount |-> N(0)]),
     O([rate |-> N(rate), amount |-> N(9360)])}

\* data contexts that differ in the taxes
TaxContexts ==
    {O([subtotal |-> N(100000), discount |-> dc, discount_type |-> S("percentage"),
        tax |-> O([cgst |-> c, sgst |-> s, igst |-> i]), total |-> N(104000)])
        : c \in TaxParts(900), s \in TaxParts(900), i \in TaxParts(1800),
          dc \in {N(0), N(5000)}}

RowContexts == DiscountContexts \cup ItemContexts \cup StepContexts \cup TaxContexts

InitRows ==
    /\ template = Undefined
    /\ data \in RowContexts
    /\ fn = "none"
    /\ arg = NoArg
    /\ ret = Undefined
    /\ thrown = FALSE
    /\ elementCommands = <<>>

\* PrintTemplateEngine.renderElement(element, data, characterWidth)
Call_renderElement ==
    /\ fn = "none"
    /\ \E element \in RowElements :
        \E r \in {renderElement(element, data)} :
            /\ fn' = "renderElement"
            /\ arg' = <<element, data>>
            /\ thrown' = (r.ret = Throw)
            /\ ret' = IF r.ret = Throw THEN Undefined ELSE r.ret
            /\ data' = r.data
            /\ UNCHANGED <<template, elementCommands>>

\* new ESCPOSGenerator().processElement(element, data, characterWidth)
Call_processElement ==
    /\ fn = "none"
    /\ \E element \in RowElements, characterWidth \in CharacterWidths :
        \E r \in {processElement(element, data, characterWidth)} :
            /\ fn' = "processElement"
            /\ arg' = <<element, data, characterWidth>>
            /\ thrown' = (r = Throw)
            /\ ret' = IF r = Throw THEN Undefined ELSE [t |-> "commands", v |-> r]
            /\ UNCHANGED <<template, data, elementCommands>>

NextRows ==
    \/ Call_renderElement
    \/ Call_processElement

SpecRows == InitRows /\ [][NextRows]_vars

---------------------------------------------------------------------------
(* Reading the artifacts of the row renderers                              *)

\* the text s holds the text sub (also for byte sequences)
Contains(s, sub) ==
    \E i \in 0..(Len(s) - Len(sub)) : SubSeq(s, i + 1, i + Len(sub)) = sub

\* where the text sub starts in s
StartsOf(s, sub) ==
    {i \in 1..(Len(s) - Len(sub) + 1) : SubSeq(s, i, i + Len(sub) - 1) = sub}

\* the members of a set of numbers, in rising order
Rising(set) ==
    [k \in 1..Cardinality(set) |->
        CHOOSE p \in set : Cardinality({q \in set : q < p}) = k - 1]

\* the texts between every opening mark and the closing mark after it
Between(s, open, close) ==
    LET opens  == Rising(StartsOf(s, open))
        closes == StartsOf(s, close)
    IN [k \in 1..Len(opens) |->
          LET b == opens[k] + Len(open)
              e == CHOOSE j \in closes : j >= b /\ \A m \in closes : m >= b => j <= m
          IN SubSeq(s, b, e - 1)]

\* the rows of a total_amount_row block: the label and the value of each
TotalRows(html) ==
    LET spans == Between(html, "<span>", "</span>")
    IN [k \in 1..(Len(spans) \div 2) |->
          [label |-> spans[2 * k - 1], value |-> spans[2 * k]]]

\* the texts a command sequence prints, one for every line feed ESC d n
\* (no text of the data contexts holds the ESC character)
PrintedLines(bytes) ==
    LET escs  == {i \in 1..Len(bytes) : bytes[i] = ESC}
        feeds == Rising({i \in escs : i < Len(bytes) /\ bytes[i + 1] = 100})
    IN [k \in 1..Len(feeds) |->
          LET before == {i \in escs : i < feeds[k]}
              from == IF before = {} THEN 1
                      ELSE 3 + CHOOSE i \in before : \A j \in before : j <= i
          IN SubSeq(bytes, from, feeds[k] - 1)]

TypeOf(element) == Prop(element, "type")

---------------------------------------------------------------------------
(* Claims about the row renderers                                          *)

\* scenario 2: discount 50, discount_type "percentage", subtotal 1000
Scenario2(d) ==
    /\ Prop(d, "discount") = N(5000)
    /\ Prop(d, "discount_type") = S("percentage")
    /\ Prop(d, "subtotal") = N(100000)

\* C11 as the specification words it: in scenario 2 the discount line of
\* total_amount_row shows a label that includes 50% and the value 50.00
\* rupees.
C11_Scenario2ShowsFifty ==
    (fn = "renderElement" /\ TypeOf(arg[1]) = S("total_amount_row") /\ Scenario2(arg[2]))
    => \E k \in DOMAIN TotalRows(ret.v) :
          /\ Contains(TotalRows(ret.v)[k].label, "Discount")
          /\ Contains(TotalRows(ret.v)[k].label, "50%")
          /\ TotalRows(ret.v)[k].value = RUPEE \o "50.00"

\* C11, amended: in scenario 2 the discount line of total_amount_row shows a
\* label that includes 50% and the value 500.00 rupees, which is
\* 1000 * 50 / 100; it is the only discount line.
C11_Scenario2ShowsFiveHundred ==
    (fn = "renderElement" /\ TypeOf(arg[1]) = S("total_amount_row") /\ Scenario2(arg[2]))
    => LET rows == TotalRows(ret.v)
           shown == {k \in DOMAIN rows : Contains(rows[k].label, "Discount")}
       IN /\ Cardinality(shown) = 1
          /\ \A k \in shown :
                /\ Contains(rows[k].label, "50%")
                /\ rows[k].value = RUPEE \o "500.00"

C11_Witness ==
    /\ fn = "renderElement"
    /\ TypeOf(arg[1]) = S("total_amount_row")
    /\ Scenario2(arg[2])
    /\ ~thrown
    /\ Contains(ret.v, "<span>Discount -50%:</span><span>" \o RUPEE \o "500.00</span>")

\* the steps a transaction_calculation_v2 block shows: operator and operand
\* of each, as the markup holds them
StepsShown(html) ==
    LET operators == Between(html, "<span class=\"calculation-operator\">", "</span>")
        operands  == Between(html, "<span class=\"calculation-operand\">", "</span>")
    IN [k \in 1..Len(operators) |-> <<operators[k], operands[k]>>]

\* a step that stands for a running total
Excluded(step) ==
    \/ Prop(step, "isFinal") = B(TRUE)
    \/ Prop(step, "operator") \in {S("="), S("%"), S("GT"), S("M+"), S("M-")}

\* operator and operand of a step as markup text
StepText(step) ==
    <<escapeHtml(Or(Prop(step, "operator"), S(""))),
      escapeHtml(Or(Prop(step, "operand"), S("")))>>

EndsWith(s, sub) == Len(sub) <= Len(s) /\ SubSeq(s, Len(s) - Len(sub) + 1, Len(s)) = sub

\* discount_type is percentage or percent
IsPercentage(d) ==
    Field(d, "discount_type", "discountType", S("amount")) \in {S("percentage"), S("percent")}

\* the amount the discount line is to show: subtotal * discount / 100 for a
\* percentage, the discount itself otherwise
DiscountAmount(d) ==
    IF IsPercentage(d)
    THEN PercentOf(Or(Prop(d, "subtotal"), N(0)), Or(Prop(d, "discount"), N(0)))
    ELSE Or(Prop(d, "discount"), N(0))

\* the markup's discount line shows the amount under a percent label for a
\* percentage and under a currency label otherwise
MarkupShowsDiscount(html, d) ==
    \E k \in DOMAIN TotalRows(html) :
        LET row == TotalRows(html)[k]
        IN /\ Contains(row.label, "Discount")
           /\ IF IsPercentage(d) THEN Contains(row.label, "%")
              ELSE Contains(row.label, RUPEE)
           /\ row.value = formatCurrency(DiscountAmount(d))

\* the same for the line the byte backend prints, the amount being in the
\* currency format of either backend
BytesShowDiscount(bytes, d) ==
    \E k \in DOMAIN PrintedLines(bytes) :
        \E amount \in {formatCurrency(DiscountAmount(d)),
                       ESCPOS_formatCurrency(DiscountAmount(d))} :
            LET line  == PrintedLines(bytes)[k]
                value == stringToBytes(amount)
                label == SubSeq(line, 1, Len(line) - Len(value))
            IN /\ Contains(line, stringToBytes("Discount"))
               /\ EndsWith(line, value)
               /\ IF IsPercentage(d) THEN Contains(label, stringToBytes("%"))
                  ELSE \/ Contains(label, stringToBytes(RUPEE))
                       \/ Contains(label, stringToBytes(ESCPOS_RUPEE))

\* C13: for total_amount_row and every data with discount > 0, both backends
\* show the derived amount subtotal * discount / 100 with a percent label when
\* discount_type is percentage or percent, and both show the discount
\* verbatim with a currency label otherwise.
C13_SameDiscountBranching ==
    /\ (fn = "renderElement" /\ TypeOf(arg[1]) = S("total_amount_row")
            /\ Gt0(Prop(arg[2], "discount")))
       => MarkupShowsDiscount(ret.v, arg[2])
    /\ (fn = "processElement" /\ TypeOf(arg[1]) = S("total_amount_row")
            /\ Gt0(Prop(arg[2], "discount")))
       => BytesShowDiscount(ret.v, arg[2])

\* the width-capped texts of an item's rate and amount
RateText(item) == formatNumberLimited(Or(Prop(item, "rate"), N(0)), 7)
AmountText(item) == formatNumberLimited(Or(Prop(item, "amount"), N(0)), 8)

\* a printed line ends with the rate text and the amount text, with nothing
\* but blanks (of a column's padding) between them
LineEndsWithRateAndAmount(line, item) ==
    \E n \in 0..8 :
        EndsWith(line, stringToBytes(RateText(item) \o Repeat(" ", n) \o AmountText(item)))

\* C14: for bill_items both backends format each item's rate and amount
\* through the width-capped number formatting with budgets of 7 and 8
\* characters: the markup shows these texts in the price and amount cells of
\* each item's row, and the byte backend prints the same two texts at the end
\* of each item's line.
C14_SameRateAndAmountTexts ==
    /\ (fn = "renderElement" /\ TypeOf(arg[1]) = S("bill_items"))
       => LET items == Items(Prop(arg[2], "items"))
          IN /\ Between(ret.v, "<span class=\"item-price\">", "</span>")
                   = [k \in 1..Len(items) |-> RateText(items[k])]
             /\ Between(ret.v, "<span class=\"item-amount\">", "</span>")
                   = [k \in 1..Len(items) |-> AmountText(items[k])]
    /\ (fn = "processElement" /\ TypeOf(arg[1]) = S("bill_items"))
       => LET items == Items(Prop(arg[2], "items"))
              lines == PrintedLines(ret.v)
          IN /\ Len(lines) = Len(items)
             /\ \A k \in 1..Len(items) : LineEndsWithRateAndAmount(lines[k], items[k])

\* the lines of a transaction_calculation: one "rate x qty" per item, then
\* the discount line when discount > 0
CalculationLines(d) ==
    LET items == Items(Prop(d, "items"))
        discount == Or(Prop(d, "discount"), N(0))
    IN [k \in 1..Len(items) |->
            formatIndianNumber(Or(Prop(items[k], "rate"), N(0))) \o " x "
            \o formatIndianNumber(Or(Prop(items[k], "qty"), N(0)))]
       \o (IF Gt0(discount)
           THEN <<"- " \o formatIndianNumber(discount)
                  \o (IF IsPercentage(d) THEN "%" ELSE "")>>
           ELSE <<>>)

\* the lines a transaction_calculation block of the markup shows, the
\* multiplications before the subtraction
MarkupCalculationLines(html) ==
    Between(html, "<div class=\"calculation-multiply\">", "</div>")
    \o Between(html, "<div class=\"calculation-subtract\">", "</div>")

MultiplyBeforeSubtract(html) ==
    \A i \in StartsOf(html, "<div class=\"calculation-multiply\">"),
       j \in StartsOf(html, "<div class=\"calculation-subtract\">") : i < j

\* C16: for transaction_calculation each backend emits, per item in order,
\* one multiplication line 'rate x qty' with Indian-grouped numbers, followed
\* by exactly one subtraction line for the discount if and only if
\* discount > 0, carrying a % suffix when discount_type is percentage or
\* percent; the byte backend's lines carry the same text as the markup
\* backend's.
C16_SameCalculationLines ==
    /\ (fn = "renderElement" /\ TypeOf(arg[1]) = S("transaction_calculation"))
       => /\ MarkupCalculationLines(ret.v) = CalculationLines(arg[2])
          /\ MultiplyBeforeSubtract(ret.v)
    /\ (fn = "processElement" /\ TypeOf(arg[1]) = S("transaction_calculation"))
       => PrintedLines(ret.v)
             = [k \in 1..Len(CalculationLines(arg[2])) |->
                    stringToBytes(CalculationLines(arg[2])[k])]

\* the number of characters a printed text holds: the bytes that are not
\* continuation bytes of a multi-byte character
CharCount(line) == Cardinality({i \in 1..Len(line) : line[i] < 128 \/ line[i] >= 192})

\* the target width of the column layout: 32, and 48 for every other
\* characterWidth
TargetWidth(characterWidth) == IF characterWidth = N(3200) THEN 32 ELSE 48

\* C17: in the byte backend's column layout the field widths of the chosen
\* preset sum to the target character width: with characterWidth 32 every
\* item_header_row line and every bill_items line is exactly 32 characters
\* long, and with any other characterWidth exactly 48 characters long, for
\* every item.
C17_ColumnLinesFillTheWidth ==
    (fn = "processElement"
        /\ TypeOf(arg[1]) \in {S("item_header_row"), S("bill_items")})
    => \A k \in DOMAIN PrintedLines(ret.v) :
          CharCount(PrintedLines(ret.v)[k]) = TargetWidth(arg[3])

---------------------------------------------------------------------------
(* Claims about the layout of the byte stream                              *)

RECURSIVE CutsFrom(_, _)
\* the number of cut opcodes GS V n the printer reads from position i on
\* (ESC @ has no parameter byte, the other ESC opcodes and GS V have one, a
\* GS ( k block has pL + 256 pH of them after its length)
CutsFrom(bytes, i) ==
    IF i > Len(bytes) THEN 0
    ELSE IF bytes[i] = ESC /\ i < Len(bytes)
    THEN CutsFrom(bytes, IF bytes[i + 1] = 64 THEN i + 2 ELSE i + 3)
    ELSE IF bytes[i] = GS /\ i < Len(bytes)
    THEN IF bytes[i + 1] = 40
         THEN CutsFrom(bytes, i + 5 + bytes[i + 3] + 256 * bytes[i + 4])
         ELSE (IF bytes[i + 1] = 86 THEN 1 ELSE 0) + CutsFrom(bytes, i + 3)
    ELSE LET controls == {j \in i..Len(bytes) : bytes[j] \in {ESC, GS}}
         IN IF controls = {} THEN 0
            ELSE CutsFrom(bytes, CHOOSE j \in controls : \A k \in controls : j <= k)

\* the characterWidth generate hands to processElement
WidthOf(t) == Or(Prop(Prop(t, "receipt_template"), "characterWidth"), N(3200))

\* C20: the byte stream generate returns has a fixed layout for every
\* template: the initialize opcode first, then the opcode sequences of the
\* elements in template order, then a feed of 3 lines, then the full-cut
\* opcode as the very last opcode; the cut opcode occurs exactly once,
\* whatever number of cut_paper elements the template contains.
C20_StreamLayout ==
    (fn = "generate" /\ ~thrown) =>
        LET elements == ElementsOf(arg[1])
            body == Flatten([k \in 1..Len(elements) |->
                                processElement(elements[k], arg[2], WidthOf(arg[1]))])
        IN /\ ret.v = <<ESC, 64>> \o body \o <<ESC, 100, 3>> \o <<GS, 86, 0>>
           /\ CutsFrom(ret.v, 1) = 1

\* generate has run on a template of two cut_paper elements
C20_Witness ==
    /\ fn = "generate"
    /\ ~thrown
    /\ ElementsOf(arg[1]) = <<Element("cut_paper"), Element("cut_paper")>>
    /\ CutsFrom(ret.v, 1) = 1
    /\ ret.v = <<ESC, 64, ESC, 100, 3, GS, 86, 0>>

---------------------------------------------------------------------------
(* Claims about the documented limits, the resets and the variants         *)

\* the price and amount cells of the rows of a bill_items block
PriceCells(html) == Between(html, "<span class=\"item-price\">", "</span>")
AmountCells(html) == Between(html, "<span class=\"item-amount\">", "</span>")

\* C21: the documented character limits hold their own examples: a
\* bill_items price of 9,999.90 is displayed as "9,999.90" within the
\* 7-character Price budget, and an amount of 99,999.99 is displayed as
\* "99,999.99" within the 8-character Amount budget.
C21_LimitsHoldTheirExamples ==
    (fn = "renderElement" /\ TypeOf(arg[1]) = S("bill_items"))
    => \A k \in DOMAIN Items(Prop(arg[2], "items")) :
          LET item == Items(Prop(arg[2], "items"))[k]
          IN /\ Prop(item, "rate") = N(999990)
                => /\ PriceCells(ret.v)[k] = "9,999.90"
                   /\ Len(PriceCells(ret.v)[k]) <= 7
             /\ Prop(item, "amount") = N(9999999)
                => /\ AmountCells(ret.v)[k] = "99,999.99"
                   /\ Len(AmountCells(ret.v)[k]) <= 8

\* the two resets an element is to end with: font style, then alignment
ClosingResets == setFontStyle(FONT_A) \o setAlignment(ALIGN_LEFT)

\* C22: in the byte backend every element that emits opcodes ends its
\* sequence with a font-style reset to the default followed by an alignment
\* reset to the default, in that order, inside that element's own sequence;
\* this holds for every element type, including separator, bill_date_row,
\* transaction_payment_row, item_header_row, bill_items and qr_code.
C22_ElementsEndWithBothResets ==
    (fn = "generate" /\ ~thrown) =>
        \A k \in DOMAIN elementCommands :
            elementCommands[k] # <<>> => EndsWith(elementCommands[k], ClosingResets)

---------------------------------------------------------------------------
(* wrapText and the text renderers of the byte backend called on their own *)

MaxWords == 4   \* a text to wrap is made of up to MaxWords words

\* the words texts are made of: short ones, one longer than most widths, and
\* the empty word two adjacent blanks enclose
WrapWordSet == {"a", "bb", "ccc", "dddddddd", ""}

MaxWidths == {N(200), N(300), N(500), N(900)}

\* the strings of a sequence with sep between them
JoinWith(seq, sep) == Join([k \in 1..Len(seq) |-> IF k = 1 THEN seq[k] ELSE sep \o seq[k]])

WrapTexts == {JoinWith(q, " ") : q \in SeqsUpTo(WrapWordSet, MaxWords) \ {<<>>}}

TextAttributes ==
    {[alignment |-> Undefined, font_size |-> Undefined, font_weight |-> Undefined],
     [alignment |-> S("CENTER"), font_size |-> S("LARGE"), font_weight |-> S("BOLD")]}

\* new ESCPOSGenerator().wrapText(text, maxWidth)
Call_wrapText ==
    /\ fn = "none"
    /\ \E text \in WrapTexts, maxWidth \in MaxWidths :
        \E lines \in {wrapText(text, maxWidth)} :
            /\ fn' = "wrapText"
            /\ arg' = <<S(text), maxWidth>>
            /\ ret' = A([k \in 1..Len(lines) |-> S(lines[k])])
            /\ UNCHANGED <<template, data, thrown, elementCommands>>

\* new ESCPOSGenerator().renderText(element, data, characterWidth)
Call_ESCPOS_renderText ==
    /\ fn = "none"
    /\ \E text \in WrapTexts, characterWidth \in MaxWidths, a \in TextAttributes :
        \E element \in {O([type |-> S("text"), value |-> S(text),
                           alignment |-> a.alignment, font_size |-> a.font_size,
                           font_weight |-> a.font_weight])} :
            /\ fn' = "renderText"
            /\ arg' = <<element, O(<<>>), characterWidth>>
            /\ ret' = [t |-> "commands",
                       v |-> ESCPOS_renderText(element, O(<<>>), characterWidth)]
            /\ UNCHANGED <<template, data, thrown, elementCommands>>

\* new ESCPOSGenerator().renderStaticText(element, characterWidth)
Call_ESCPOS_renderStaticText ==
    /\ fn = "none"
    /\ \E text \in WrapTexts, characterWidth \in MaxWidths, a \in TextAttributes :
        \E element \in {O([type |-> S("static_text"), value |-> S(text),
                           alignment |-> a.alignment, font_size |-> a.font_size,
                           font_weight |-> a.font_weight])} :
            /\ fn' = "renderStaticText"
            /\ arg' = <<element, O(<<>>), characterWidth>>
            /\ ret' = [t |-> "commands",
                       v |-> ESCPOS_renderStaticText(element, characterWidth)]
            /\ UNCHANGED <<template, data, thrown, elementCommands>>

\* the payloads of a QR code: none, ASCII, characters of two and of three
\* UTF-8 bytes, and two whose length with the three header bytes passes 255
QrPayloads ==
    {"", "upi://pay?pa=shop@upi", RUPEE \o "100", ESCPOS_RUPEE \o "5",
     Repeat("a", 253), Repeat("ab", 150)}

QrSizes == {Undefined, S("SMALL"), S("MEDIUM"), S("LARGE"), S("HUGE"), S("constructor")}

QrLevels == {Undefined, S("L"), S("M"), S("Q"), S("H"), S("X"), S("toString")}

\* new ESCPOSGenerator().renderQRCode(element, data)
Call_ESCPOS_renderQRCode ==
    /\ fn = "none"
    /\ \E size \in QrSizes, level \in QrLevels, payload \in QrPayloads,
          value \in {Undefined, S("${qr_data}#${bill_number}")} :
        \E element \in {O([type |-> S("qr_code"), value |-> value, size |-> size,
                           error_correction |-> level])},
           d \in {O([qr_data |-> S(payload), bill_number |-> S("B-7")])} :
            /\ fn' = "renderQRCode"
            /\ arg' = <<element, d>>
            /\ ret' = [t |-> "commands", v |-> ESCPOS_renderQRCode(element, d)]
            /\ UNCHANGED <<template, data, thrown, elementCommands>>

NextWrap ==
    \/ Call_wrapText
    \/ Call_ESCPOS_renderText
    \/ Call_ESCPOS_renderStaticText
    \/ Call_ESCPOS_renderQRCode

SpecWrap == InitFormat /\ [][NextWrap]_vars

---------------------------------------------------------------------------
(* Claims about wrapText                                                   *)

\* the space-separated words of a text, the empty ones among them
SpaceSeparated(text) ==
    LET marks == Rising({0, Len(text) + 1} \cup {i \in 1..Len(text) : At(text, i) = " "})
    IN [k \in 1..(Len(marks) - 1) |-> SubSeq(text, marks[k] + 1, marks[k + 1] - 1)]

\* the first width characters of a word
Truncated(word, width) == SubSeq(word, 1, IF Len(word) > width THEN width ELSE Len(word))

\* the line the words a..b make: blanks between them, the empty words in
\* front left out and the first word cut to the width ("" when all are empty)
LineOf(words, a, b, width) ==
    LET filled == {k \in a..b : words[k] # ""}
    IN IF filled = {} THEN ""
       ELSE LET f == CHOOSE k \in filled : \A m \in filled : k <= m
            IN JoinWith([k \in 1..(b - f + 1) |->
                            IF k = 1 THEN Truncated(words[f], width) ELSE words[f + k - 1]],
                        " ")

\* the lines of the words when new lines start at the words of starts
LinesOf(words, starts, width) ==
    LET from == Rising(starts)
    IN [j \in 1..Len(from) |->
          LineOf(words, from[j],
                 IF j = Len(from) THEN Len(words) ELSE from[j + 1] - 1, width)]

\* lines is the greedy wrap of the words: every line is within the width, and
\* a line ends only where the word after it would not stay within the width
IsGreedyWrap(lines, words, width) ==
    \E cuts \in SUBSET (2..Len(words)) :
        LET from == Rising({1} \cup cuts)
            made == LinesOf(words, {1} \cup cuts, width)
        IN /\ \A j \in 1..Len(made) : Len(made[j]) <= width
           /\ \A j \in 1..(Len(made) - 1) :
                 /\ made[j] # ""
                 /\ Len(made[j] \o " " \o words[from[j + 1]]) > width
           /\ lines = SelectSeq(made, LAMBDA line : line # "")

Utf8Length(text) ==
    Len(text)
    + Cardinality({i \in 1..Len(text) : charCodeAt(At(text, i)) >= 128})
    + Cardinality({i \in 1..Len(text) : charCodeAt(At(text, i)) >= 2048})

\* the size byte and the error-correction byte an attribute stands for
SizeByte(size) ==
    CASE size = S("SMALL") -> 3
      [] size = S("LARGE") -> 8
      [] OTHER -> 6

LevelByte(level) ==
    CASE level = S("L") -> 48
      [] level = S("Q") -> 50
      [] level = S("H") -> 51
      [] OTHER -> 49

\* the GS ( k blocks of commands c from position p on: model, size,
\* error correction, store (with its length prefix and n payload bytes), print
QrBlocksAt(c, p, sizeByte, levelByte, n) ==
    /\ Len(c) >= p + 40 + n
    /\ SubSeq(c, p, p + 8) = <<GS, 40, 107, 4, 0, 49, 65, 50, 0>>
    /\ SubSeq(c, p + 9, p + 16) = <<GS, 40, 107, 3, 0, 49, 67, sizeByte>>
    /\ SubSeq(c, p + 17, p + 24) = <<GS, 40, 107, 3, 0, 49, 69, levelByte>>
    /\ SubSeq(c, p + 25, p + 27) = <<GS, 40, 107>>
    /\ c[p + 28] \in 0..255
    /\ c[p + 29] \in 0..255
    /\ c[p + 28] + 256 * c[p + 29] = n + 3
    /\ SubSeq(c, p + 30, p + 32) = <<49, 80, 48>>
    /\ SubSeq(c, p + 33 + n, p + 40 + n) = <<GS, 40, 107, 3, 0, 49, 81, 48>>

\* C24: the commands of a qr_code element hold the sub-commands model, size,
\* error correction, data store and print in this order; the size byte is 3
\* for SMALL, 8 for LARGE and 6 for MEDIUM and for any other size; the
\* error-correction byte is 48, 50, 51 for L, Q, H and 49 for M and for any
\* other level; the two-byte little-endian length before the payload is the
\* UTF-8 length of the payload plus 3
C24_QrCommands ==
    fn = "renderQRCode" =>
        QrBlocksAt(ret.v, 4, SizeByte(Prop(arg[1], "size")),
                   LevelByte(Prop(arg[1], "error_correction")),
                   Utf8Length(ToStr(QrData(arg[1], arg[2]))))

\* ---- the rows of the markup's total block ----

\* the amount of a tax of the data context (0 when the tax is absent)
TaxAmount(d, key) ==
    Or(Prop(Or(Prop(Or(Prop(d, "tax"), O(<<>>)), key), O(<<>>)), "amount"), N(0))

\* the kinds of row a total block is to hold, in order, each with its amount
ExpectedTotalRows(d) ==
    <<[kind |-> "Subtotal", amount |-> Or(Prop(d, "subtotal"), N(0))]>>
    \o (IF Gt0(Or(Prop(d, "discount"), N(0)))
        THEN <<[kind |-> "Discount", amount |-> DiscountAmount(d)]>> ELSE <<>>)
    \o (IF Gt0(TaxAmount(d, "cgst"))
        THEN <<[kind |-> "CGST", amount |-> TaxAmount(d, "cgst")]>> ELSE <<>>)
    \o (IF Gt0(TaxAmount(d, "sgst"))
        THEN <<[kind |-> "SGST", amount |-> TaxAmount(d, "sgst")]>> ELSE <<>>)
    \o (IF Gt0(TaxAmount(d, "igst"))
        THEN <<[kind |-> "IGST", amount |-> TaxAmount(d, "igst")]>> ELSE <<>>)
    \o <<[kind |-> "TOTAL", amount |-> Or(Prop(d, "total"), N(0))]>>

\* a row of the block is of the kind and shows the amount
IsTotalRow(row, expected, d) ==
    /\ SubSeq(row.label, 1, Len(expected.kind)) = expected.kind
    /\ row.value = formatCurrency(expected.amount)
    /\ expected.kind = "Discount" =>
          IF IsPercentage(d) THEN Contains(row.label, "%") /\ ~Contains(row.label, RUPEE)
          ELSE Contains(row.label, RUPEE) /\ ~Contains(row.label, "%")

\* C25: the markup of total_amount_row has the subtotal row first and the
\* total row last; a discount row exactly when the discount is above 0, with
\* subtotal * discount / 100 under a percent label for the types percentage
\* and percent and the discount itself under a currency label otherwise; and
\* between them the CGST, SGST and IGST rows, in this order, each exactly
\* when its amount is above 0
C25_TotalRowsInOrder ==
    (fn = "renderElement" /\ TypeOf(arg[1]) = S("total_amount_row")) =>
        LET rows     == TotalRows(ret.v)
            expected == ExpectedTotalRows(arg[2])
        IN /\ Len(rows) = Len(expected)
           /\ \A k \in DOMAIN rows : IsTotalRow(rows[k], expected[k], arg[2])

\* a block with a percentage discount, CGST and IGST but an SGST of amount 0
C25_Witness ==
    /\ fn = "renderElement"
    /\ TypeOf(arg[1]) = S("total_amount_row")
    /\ Prop(arg[2], "discount") = N(5000)
    /\ TaxAmount(arg[2], "cgst") = N(9360)
    /\ Prop(Prop(arg[2], "tax"), "sgst") = O([rate |-> N(900), amount |-> N(0)])
    /\ TaxAmount(arg[2], "igst") = N(9360)
    /\ Len(TotalRows(ret.v)) = 5
    /\ TotalRows(ret.v)[2].value = RUPEE \o "500.00"
    /\ TotalRows(ret.v)[4].label = "IGST @ 18%:"

\* ---- the steps generated from the items ----

\* the multiplication lines and the subtraction lines transaction_calculation
\* shows for a data context
MultiplicationsOf(d) ==
    Between(renderTransactionCalculation(O([type |-> S("transaction_calculation")]), d).v,
            "<div class=\"calculation-multiply\">", "</div>")

SubtractionsOf(d) ==
    Between(renderTransactionCalculation(O([type |-> S("transaction_calculation")]), d).v,
            "<div class=\"calculation-subtract\">", "</div>")

\* C26: with calculation_steps absent or empty and items not empty,
\* transaction_calculation_v2 shows two steps per item, the rate and then the
\* quantity, and one more for the discount exactly when the discount is above
\* 0; the operands are the number texts transaction_calculation shows for the
\* same data: rate and quantity of each item in order, and the discount with
\* its % suffix
C26_GeneratedStepsMatchCalculation ==
    (fn = "renderElement" /\ TypeOf(arg[1]) = S("transaction_calculation_v2")
        /\ Items(Prop(arg[2], "calculation_steps")) = <<>>
        /\ Items(Prop(arg[2], "items")) # <<>>)
    => LET shown == StepsShown(ret.v)
           lines == MultiplicationsOf(arg[2])
           minus == SubtractionsOf(arg[2])
           n     == Len(Items(Prop(arg[2], "items")))
           disc  == IF Gt0(Or(Prop(arg[2], "discount"), N(0))) THEN 1 ELSE 0
       IN /\ ~thrown
          /\ Len(shown) = 2 * n + disc
          /\ Len(lines) = n
          /\ Len(minus) = disc
          /\ \A k \in 1..n :
                /\ shown[2 * k - 1][1] = "x"
                /\ shown[2 * k][1] = "x"
                /\ lines[k] = shown[2 * k - 1][2] \o " x " \o shown[2 * k][2]
                /\ shown[2 * k - 1][2]
                     = formatIndianNumber(Or(Prop(Items(Prop(arg[2], "items"))[k], "rate"), N(0)))
          /\ disc = 1 =>
                /\ shown[2 * n + 1][1] = "-"
                /\ minus[1] = "- " \o shown[2 * n + 1][2]
                /\ IsPercentage(arg[2]) <=> EndsWith(shown[2 * n + 1][2], "%")

\* two items and a percentage discount with no steps given: five steps
C26_Witness ==
    /\ fn = "renderElement"
    /\ TypeOf(arg[1]) = S("transaction_calculation_v2")
    /\ Prop(arg[2], "calculation_steps") = Undefined
    /\ Len(Items(Prop(arg[2], "items"))) = 2
    /\ StepsShown(ret.v) = <<<<"x", "100.00">>, <<"x", "2.00">>, <<"x", "1,23,456.78">>,
                             <<"x", "1.50">>, <<"-", "10.00%">>>>

\* ---- data values in the markup ----

\* the tags that the texts of the data contexts hold and no renderer writes
DataTags ==
    {"<b>", "<a>", "<tt>", "<i>", "<u>", "<em>", "<q>", "<h1>", "<s>", "<p>", "<9>",
     "<x>", "<o>", "<Store>"}

\* C27: every text of the data context is escaped before it is put into the
\* markup, by every renderer, so the preview holds no tag that comes from a
\* data value
C27_DataIsEscaped ==
    (fn = "renderPreview" /\ ~thrown) =>
        \A tag \in DataTags : ~Contains(ret.v, tag)

\* ---- the element types of the two backends ----

\* the case labels of the switch in processElement
ProcessElementCases ==
    {"text", "static_text", "separator", "newline", "bill_date_row",
     "transaction_payment_row", "transaction_calculation", "item_header_row",
     "bill_items", "total_amount_row", "qr_code", "cut_paper"}

\* C28: every element type that the markup backend's table renders to
\* non-empty markup is handled by a case of the byte backend's processElement
\* and is not treated there as an unknown type
C28_SameElementTypes ==
    (fn = "renderPreview" /\ ~thrown /\ HasElementsArray(arg[1])) =>
        \A k \in 1..Len(ElementsOf(arg[1])) :
            LET element == ElementsOf(arg[1])[k]
            IN (IsKnownType(element)
                  /\ renderElement(element, arg[2]).ret \notin {S(""), Throw})
               => ToStr(Prop(element, "type")) \in ProcessElementCases

\* ---- the length of the printed lines ----

\* the lines element k of the template prints: the texts before the line
\* feeds of its commands (a qr_code prints a symbol and no text)
LinesOfElement(k) ==
    IF TypeOf(ElementsOf(arg[1])[k]) = S("qr_code") THEN <<>>
    ELSE PrintedLines(elementCommands[k])

\* C29: no line the byte backend prints is longer than characterWidth
\* characters, for every element type and every data context
C29_LinesFitTheWidth ==
    (fn = "generate" /\ ~thrown) =>
        \A k \in DOMAIN elementCommands :
            \A n \in DOMAIN LinesOfElement(k) :
                CharCount(LinesOfElement(k)[n]) <= Whole(WidthOf(arg[1]))

\* ---- the words wrapText keeps ----

\* the space-separated words of a text that are not empty
NonEmptyWords(text) == SelectSeq(SpaceSeparated(text), LAMBDA word : word # "")

\* C30: when no word of the text is longer than the width, the non-empty
\* words read across the lines wrapText returns, in order, are the non-empty
\* words of the text
C30_WrapKeepsTheWords ==
    (fn = "wrapText"
        /\ \A k \in DOMAIN SpaceSeparated(arg[1].v) :
              Len(SpaceSeparated(arg[1].v)[k]) * 100 <= arg[2].v)
    => Flatten([k \in 1..Len(ret.v) |-> NonEmptyWords(ret.v[k].v)])
         = NonEmptyWords(arg[1].v)

\* a text with two blanks in a row wrapped to 3: three lines, no word lost
C30_Witness ==
    /\ fn = "wrapText"
    /\ arg = <<S("a  bb ccc"), N(300)>>
    /\ ret = A(<<S("a "), S("bb"), S("ccc")>>)

=============================================================================
